---- MODULE Spec2Model ----
(***************************************************************************)
(* Model of the search and scroll-synchronisation services of the          *)
(* MarkdownEditor application.                                             *)
(*                                                                         *)
(* Strings are sequences of one-character strings; offsets are 0-based and *)
(* end-exclusive as in JavaScript.                                         *)
(***************************************************************************)
EXTENDS Integers, Sequences, FiniteSets, TLC

\* ------------------------------------------------------------------------
\* Bounds of the model
\* ------------------------------------------------------------------------

\* longest list of targets handed to performSearch
MaxTargets == 2

\* most requestAnimationFrame callbacks pending at once
MaxFrames == 2

\* most setTimeout callbacks of scrollToSearchResult pending at once
MaxTimeouts == 2

\* ------------------------------------------------------------------------
\* JavaScript string primitives
\* ------------------------------------------------------------------------

Min(a, b) == IF a < b THEN a ELSE b
Max(a, b) == IF a > b THEN a ELSE b

UpperLetters ==
  <<"A", "B", "C", "D", "E", "F", "G", "H", "I", "J", "K", "L", "M",
    "N", "O", "P", "Q", "R", "S", "T", "U", "V", "W", "X", "Y", "Z">>

LowerLetters ==
  <<"a", "b", "c", "d", "e", "f", "g", "h", "i", "j", "k", "l", "m",
    "n", "o", "p", "q", "r", "s", "t", "u", "v", "w", "x", "y", "z">>

\* position of c in a sequence of letters, 0 when it is not one of them
LetterIndex(c, letters) ==
  IF \E i \in 1..Len(letters) : letters[i] = c
  THEN CHOOSE i \in 1..Len(letters) : letters[i] = c
  ELSE 0

\* the code units U+0130 (capital I with dot above) and U+0307 (combining
\* dot above), each standing for one character of a string
CapitalIDot == "U+0130"
CombiningDot == "U+0307"

\* String.prototype.toLowerCase on one character: the code units of its
\* lower-case mapping (U+0130 maps to the two units "i" U+0307)
LowerChar(c) ==
  IF c = CapitalIDot THEN <<"i", CombiningDot>>
  ELSE IF LetterIndex(c, UpperLetters) # 0
    THEN <<LowerLetters[LetterIndex(c, UpperLetters)]>>
  ELSE <<c>>

RECURSIVE toLowerCase(_)
toLowerCase(s) ==
  IF s = <<>> THEN <<>> ELSE LowerChar(Head(s)) \o toLowerCase(Tail(s))

\* Canonicalize step of case-insensitive regular-expression matching (the
\* character is upper-cased when its upper case is a single code unit)
Canonicalize(c) ==
  IF LetterIndex(c, LowerLetters) # 0
  THEN UpperLetters[LetterIndex(c, LowerLetters)]
  ELSE c

\* String.prototype.substring(a, b): arguments clamped to [0, length] and
\* swapped when a > b
substring(s, a, b) ==
  LET ca == Max(0, Min(a, Len(s)))
      cb == Max(0, Min(b, Len(s)))
  IN SubSeq(s, Min(ca, cb) + 1, Max(ca, cb))

\* String.prototype.indexOf(q, from): least offset >= from where q occurs,
\* or -1
indexOf(s, q, from) ==
  LET f == Max(0, Min(from, Len(s)))
      hits == {i \in f..(Len(s) - Len(q)) : SubSeq(s, i + 1, i + Len(q)) = q}
  IN IF hits = {} THEN -1 ELSE CHOOSE i \in hits : \A j \in hits : i <= j

\* ------------------------------------------------------------------------
\* Regular expressions (the part of the pattern language the model's
\* alphabet can spell: literals, ".", "*", "\" escapes, "\b" and "\B")
\* ------------------------------------------------------------------------

\* the characters of /[.*+?^${}()|[\]\\]/
MetaChars == {".", "*", "+", "?", "^", "$", "{", "}", "(", ")", "|", "[", "]", "\\"}

\* the characters of \w
IsWordChar(c) ==
  \/ LetterIndex(c, UpperLetters) # 0
  \/ LetterIndex(c, LowerLetters) # 0
  \/ c \in {"0", "1", "2", "3", "4", "5", "6", "7", "8", "9", "_"}

\* an escapeRegExp that escapes nothing
escapeRegExpNone(s) == s

RECURSIVE escapeRegExp(_)
escapeRegExp(s) ==
  IF s = <<>> THEN <<>>
  ELSE (IF Head(s) \in MetaChars THEN <<"\\", Head(s)>> ELSE <<Head(s)>>)
         \o escapeRegExp(Tail(s))

Atom(k, c) == [kind |-> k, ch |-> c, star |-> FALSE]

\* what RegExp yields for a pattern the constructor rejects
Invalid == <<Atom("invalid", "")>>

\* new RegExp(p, flags): the sequence of atoms of pattern p, or Invalid when
\* the constructor throws a SyntaxError
RECURSIVE ParseFrom(_, _, _)
ParseFrom(p, i, acc) ==
  IF i > Len(p) THEN acc
  ELSE IF p[i] = "\\"
    THEN IF i = Len(p) THEN Invalid
         ELSE LET c == p[i + 1]
                  a == CASE c = "b" -> Atom("wb", c)
                         [] c = "B" -> Atom("nwb", c)
                         [] OTHER -> Atom("lit", c)
              IN ParseFrom(p, i + 2, Append(acc, a))
  ELSE IF p[i] = "*"
    THEN IF acc = <<>> \/ acc[Len(acc)].star \/ acc[Len(acc)].kind \in {"wb", "nwb"}
         THEN Invalid
         ELSE ParseFrom(p, i + 1, [acc EXCEPT ![Len(acc)].star = TRUE])
  ELSE IF p[i] = "."
    THEN ParseFrom(p, i + 1, Append(acc, Atom("any", ".")))
  ELSE ParseFrom(p, i + 1, Append(acc, Atom("lit", p[i])))

RegExp(p) == ParseFrom(p, 1, <<>>)

\* is there a word boundary at offset pos of text
AtWordBoundary(text, pos) ==
  LET before == pos >= 1 /\ pos <= Len(text) /\ IsWordChar(text[pos])
      after == pos + 1 <= Len(text) /\ IsWordChar(text[pos + 1])
  IN before # after

\* does a character atom accept the character c
AtomMatches(a, c, ignoreCase) ==
  CASE a.kind = "any" -> c # "\n"
    [] a.kind = "lit" ->
         IF ignoreCase THEN Canonicalize(a.ch) = Canonicalize(c) ELSE a.ch = c
    [] OTHER -> FALSE

\* number of consecutive characters from offset pos the atom accepts
RECURSIVE RunLength(_, _, _, _)
RunLength(a, text, pos, ignoreCase) ==
  IF pos + 1 <= Len(text) /\ AtomMatches(a, text[pos + 1], ignoreCase)
  THEN 1 + RunLength(a, text, pos + 1, ignoreCase)
  ELSE 0

\* backtracking matcher: the end offset of the match of atoms[i..] that
\* starts at offset pos, or -1; a starred atom is greedy
RECURSIVE MatchFrom(_, _, _, _, _)
RECURSIVE TryStar(_, _, _, _, _, _)
MatchFrom(atoms, text, i, pos, ignoreCase) ==
  IF i > Len(atoms) THEN pos
  ELSE LET a == atoms[i] IN
    IF a.kind = "wb"
      THEN IF AtWordBoundary(text, pos)
           THEN MatchFrom(atoms, text, i + 1, pos, ignoreCase) ELSE -1
    ELSE IF a.kind = "nwb"
      THEN IF ~AtWordBoundary(text, pos)
           THEN MatchFrom(atoms, text, i + 1, pos, ignoreCase) ELSE -1
    ELSE IF a.star
      THEN TryStar(atoms, text, i, pos, RunLength(a, text, pos, ignoreCase), ignoreCase)
    ELSE IF pos + 1 <= Len(text) /\ AtomMatches(a, text[pos + 1], ignoreCase)
      THEN MatchFrom(atoms, text, i + 1, pos + 1, ignoreCase)
    ELSE -1

TryStar(atoms, text, i, pos, k, ignoreCase) ==
  LET r == MatchFrom(atoms, text, i + 1, pos + k, ignoreCase)
  IN IF r # -1 THEN r
     ELSE IF k = 0 THEN -1
     ELSE TryStar(atoms, text, i, pos, k - 1, ignoreCase)

\* RegExp.prototype.exec with the g flag: the least start offset >=
\* lastIndex where the pattern matches, with the end of that match; index
\* is -1 when exec returns null
exec(atoms, text, lastIndex, ignoreCase) ==
  LET starts == {s \in lastIndex..Len(text) :
                   MatchFrom(atoms, text, 1, s, ignoreCase) # -1}
  IN IF starts = {} THEN [index |-> -1, lastIndex |-> 0]
     ELSE LET s == CHOOSE x \in starts : \A y \in starts : x <= y
          IN [index |-> s, lastIndex |-> MatchFrom(atoms, text, 1, s, ignoreCase)]


\* ------------------------------------------------------------------------
\* Match Finder (SearchService.searchInContent and its helpers)
\* ------------------------------------------------------------------------

contextLength == 50

getContext(content, start, end) ==
  LET beforeStart == Max(0, start - contextLength)
      afterEnd == Min(Len(content), end + contextLength)
      before == substring(content, beforeStart, start)
      match == substring(content, start, end)
      after == substring(content, end, afterEnd)
  IN before \o match \o after

SearchResult(content, start, end) ==
  [start |-> start, end |-> end,
   text |-> substring(content, start, end),
   context |-> getContext(content, start, end)]

\* an indexOf loop that resumes one character after the start of each match
RECURSIVE simpleSearchFromOverlapping(_, _, _, _, _)
simpleSearchFromOverlapping(query, searchText, originalContent, index, results) ==
  LET found == indexOf(searchText, query, index)
  IN IF found = -1 THEN results
     ELSE simpleSearchFromOverlapping(query, searchText, originalContent, found + 1,
            Append(results, SearchResult(originalContent, found, found + Len(query))))

\* simpleSearch: the indexOf loop, resuming at the end of each match
RECURSIVE simpleSearchFrom(_, _, _, _, _)
simpleSearchFrom(query, searchText, originalContent, index, results) ==
  LET found == indexOf(searchText, query, index)
  IN IF found = -1 THEN results
     ELSE simpleSearchFrom(query, searchText, originalContent, found + Len(query),
            Append(results, SearchResult(originalContent, found, found + Len(query))))

simpleSearch(query, searchText, originalContent) ==
  simpleSearchFrom(query, searchText, originalContent, 0, <<>>)

\* an exec loop that steps over one character after every match
NextLastIndexSkip(m) == m.lastIndex + 1

\* lastIndex after one iteration of the exec loop: a zero-width match (index
\* = lastIndex) advances it by one
NextLastIndex(m) ==
  IF m.index = m.lastIndex THEN m.lastIndex + 1 ELSE m.lastIndex

\* the while ((match = regex.exec(searchText)) !== null) loop
RECURSIVE execLoop(_, _, _, _, _, _)
execLoop(atoms, searchText, content, lastIndex, ignoreCase, results) ==
  LET m == exec(atoms, searchText, lastIndex, ignoreCase)
  IN IF m.index = -1 THEN results
     ELSE execLoop(atoms, searchText, content, NextLastIndex(m), ignoreCase,
            Append(results, SearchResult(content, m.index, m.lastIndex)))

\* a pattern source whose whole-word mode leaves out the \b assertions
PatternSourceNoBoundary(searchQuery, options) ==
  IF options.useRegex THEN searchQuery ELSE escapeRegExp(searchQuery)

\* the pattern source handed to new RegExp for the three modes
PatternSource(searchQuery, options) ==
  IF options.useRegex THEN searchQuery
  ELSE IF options.wholeWord
    THEN <<"\\", "b">> \o escapeRegExp(searchQuery) \o <<"\\", "b">>
  ELSE escapeRegExp(searchQuery)

searchInContent(query, content, options) ==
  IF query = <<>> \/ content = <<>> THEN <<>>
  ELSE
    LET searchText == IF options.caseSensitive THEN content ELSE toLowerCase(content)
        searchQuery == IF options.caseSensitive THEN query ELSE toLowerCase(query)
        regex == RegExp(PatternSource(searchQuery, options))
    IN IF regex = Invalid
       THEN simpleSearch(searchQuery, searchText, content)
       ELSE execLoop(regex, searchText, content, 0, ~options.caseSensitive, <<>>)


\* ------------------------------------------------------------------------
\* Inputs of the Search State Store
\* ------------------------------------------------------------------------

EmptyString == <<>>

\* queries typed into the search box: "", "a" and "a*"
Queries == {EmptyString, <<"a">>, <<"a", "*">>}

\* document contents: "aA*a", "a*" and the empty document
Contents == {<<"a", "A", "*", "a">>, <<"a", "*">>, EmptyString}

SearchModes == {"editor", "preview", "split"}

SearchTargets == [type : {"editor"}, content : Contents]

TargetLists == UNION {[1..n -> SearchTargets] : n \in 0..MaxTargets}

\* texts of the editor buffer while the store feeds the Buffer Highlighter:
\* "*a" and "ba"
OverlayContents == {<<"*", "a">>, <<"b", "a">>}

\* texts of the rendered document searched next to the buffer: "a" and "ab"
OverlayRendered == {<<"a">>, <<"a", "b">>}

\* queries of those searches: "", "a" and "b"
OverlayQueries == {EmptyString, <<"a">>, <<"b">>}

OptionKeys == {"caseSensitive", "wholeWord", "useRegex"}

\* Partial<SearchOptions> arguments: one option key with its new value
PartialOptions == UNION {[{k} -> BOOLEAN] : k \in OptionKeys}

VARIABLES
  searchState,      \* searchState$.value
  searchOptions,    \* SearchService.searchOptions
  debounceTimers,   \* values held by the scheduled timers of debounceTime
  distinctKey,      \* key kept by distinctUntilChanged: <<>> or <<value>>
  lastTargets,      \* targets of the last step when it was performSearch
  lastOp,           \* name of the operation of the last step
  emitted,          \* did the last step call searchState$.next
  sinceClose,       \* "no", or since closeSearch: "quiet" (timers only) / "busy"
  lastPushed,       \* <<>> or <<v>>, v the last value given to searchQuery$.next
  superseded        \* did the last searchQuery$.next cancel a timer that held
                    \* another value

searchVars == <<searchState, searchOptions, debounceTimers, distinctKey,
                lastTargets, lastOp, emitted, sinceClose, lastPushed, superseded>>

\* state of the Scroll Sync Engine and of the two panes it is given
VARIABLES
  isSyncing,             \* ScrollSyncService.isSyncing
  editorElement,         \* "editor" or "null"
  previewElement,        \* "preview" or "null"
  editorScrollListener,  \* is the field set (TRUE) or null (FALSE)
  previewScrollListener,
  listeners,             \* pane -> number of Engine listeners installed on it
  scrollTop,             \* pane -> scroll offset
  scrollHeight,          \* pane -> content extent
  clientHeight,          \* pane -> viewport extent
  scrollPending,         \* pane -> cause of its undelivered scroll event:
                         \* "none", "external", "mirror", "smooth", "stale"
  smoothTarget,          \* pane -> offset a smooth scroll is heading for, or -1
  frames,                \* number of pending requestAnimationFrame callbacks
  timeouts,              \* the pending setTimeout callbacks, in order: the
                         \* wasSync each captured, and whether the Engine was
                         \* set up or torn down since it was scheduled
  lastMirror             \* cause of the event behind the latest mirrored write

scrollVars == <<isSyncing, editorElement, previewElement, editorScrollListener,
                previewScrollListener, listeners, scrollTop, scrollHeight,
                clientHeight, scrollPending, smoothTarget, frames, timeouts,
                lastMirror>>

\* one call of the Match Finder: its arguments and what it returned
VARIABLES
  findQuery,        \* query argument of searchInContent
  findText,         \* content argument of searchInContent
  findOptions,      \* SearchService.searchOptions during the call
  findResult        \* <<>> before the call, <<results>> once it has returned

finderVars == <<findQuery, findText, findOptions, findResult>>

\* state of the editor view (MarkdownEditorComponent) and of its textarea and
\* highlight backdrop
VARIABLES
  editorContent,    \* MarkdownEditorComponent.content
  showSearch,       \* MarkdownEditorComponent.showSearch
  editorQuery,      \* MarkdownEditorComponent.searchQuery
  currentMatch,     \* MarkdownEditorComponent.currentMatch
  totalMatches,     \* MarkdownEditorComponent.totalMatches
  searchMatches,    \* MarkdownEditorComponent.searchMatches
  backdrop,         \* the string last assigned to highlightBackdrop.innerHTML
  selection,        \* <<selectionStart, selectionEnd>> of the textarea
  openTimers,       \* number of pending setTimeout callbacks of openSearch
  selectionTimers   \* selectionStart captured by each pending setTimeout of
                    \* scrollToSelection, in order

editorVars == <<editorContent, showSearch, editorQuery, currentMatch, totalMatches,
                searchMatches, backdrop, selection, openTimers, selectionTimers>>

\* state of the preview view (MarkdownPreviewComponent) and of the element
\* its markup is bound to
VARIABLES
  previewTree,      \* the tree originalHtmlContent parses to
  htmlContent,      \* MarkdownPreviewComponent.htmlContent, the markup shown
  previewDom,       \* the tree inside previewElement
  previewFrames     \* for each pending requestAnimationFrame callback, in
                    \* order: the currentIndex it captured and the query of
                    \* the pass that requested it

previewVars == <<previewTree, htmlContent, previewDom, previewFrames>>

\* state of the application shell (AppComponent), of the files it opens and
\* of the scroll listeners it installs on the panes
VARIABLES
  viewMode,         \* AppComponent.viewMode
  appShowSearch,    \* AppComponent.showSearch
  appSearchQuery,   \* AppComponent.searchQuery
  appCurrentMatch,  \* AppComponent.currentMatch
  appTotalMatches,  \* AppComponent.totalMatches
  appLastOp,        \* the operations the latest handler of AppComponent
                    \* called, in order
  currentFilePath,  \* AppComponent.currentFilePath, "null" when there is none
  workspaceFiles,   \* AppComponent.workspaceFiles
  disk,             \* path -> content of the file
  pendingReads,     \* path -> number of readFile promises not yet settled
  bufferOf,         \* the path whose read or creation last set
                    \* currentFileContent, "null" once it was cleared
  appListeners,     \* pane -> number of listeners setupScrollListeners
                    \* installed on its element
  setupTimers,      \* number of pending setTimeout callbacks that install
                    \* the listeners
  pointerEvents,    \* pane -> style.pointerEvents of its element
  pointerTimers     \* the pane each pending setTimeout callback of
                    \* handleDirectScroll restores pointerEvents of, in order

appSearchVars == <<viewMode, appShowSearch, appSearchQuery, appCurrentMatch,
                   appTotalMatches, appLastOp>>

appFileVars == <<currentFilePath, workspaceFiles, disk, pendingReads, bufferOf>>

appScrollVars == <<appListeners, setupTimers, pointerEvents, pointerTimers>>

appVars == <<appSearchVars, appFileVars, appScrollVars>>

vars == <<searchVars, scrollVars, finderVars, editorVars, previewVars, appVars>>

\* what an operation of the Search State Store leaves alone
nonSearchVars == <<scrollVars, finderVars, editorVars, previewVars, appVars>>

\* what the Scroll Sync Engine, the panes and the browser leave alone
nonScrollVars == <<searchVars, finderVars, editorVars, previewVars, appVars>>

\* what a call of the Match Finder leaves alone
nonFinderVars == <<searchVars, scrollVars, editorVars, previewVars, appVars>>

\* what the editor view leaves alone
nonEditorVars == <<searchVars, scrollVars, finderVars, previewVars, appVars>>

\* what the preview view leaves alone
nonPreviewVars == <<searchVars, scrollVars, finderVars, editorVars, appVars>>

\* what the search handlers of the application shell leave alone
nonAppSearchVars == <<searchVars, scrollVars, finderVars, appFileVars, appScrollVars>>

\* ------------------------------------------------------------------------
\* Search State Store (SearchService)
\* ------------------------------------------------------------------------

InitialSearchState ==
  [query |-> EmptyString, isActive |-> FALSE, results |-> <<>>,
   currentIndex |-> 0, totalMatches |-> 0, searchMode |-> "editor"]

DefaultSearchOptions ==
  [caseSensitive |-> FALSE, wholeWord |-> FALSE, useRegex |-> FALSE]

SearchInit ==
  /\ searchState = InitialSearchState
  /\ searchOptions = DefaultSearchOptions
  /\ debounceTimers = <<>>
  /\ distinctKey = <<>>
  /\ lastTargets = <<>>
  /\ lastOp = "init"
  /\ emitted = FALSE
  /\ sinceClose = "no"
  /\ lastPushed = <<>>
  /\ superseded = FALSE

\* a debounce that schedules a new timer without cancelling the pending one
DebounceScheduleNoCancel(timers, v) == Append(timers, v)

\* debounceTime(300) on searchQuery$.next(v): the scheduled timer is
\* cancelled and a new one is scheduled for v
DebounceSchedule(timers, v) == <<v>>

\* searchQuery$.next(v)
searchQuery_next(v) ==
  /\ debounceTimers' = DebounceSchedule(debounceTimers, v)
  /\ lastPushed' = <<v>>
  /\ superseded' = (debounceTimers # <<>> /\ Head(debounceTimers) # v)

\* history kept for an operation other than closeSearch, updateSearchQuery
\* and the timer
NoteOp(name, didEmit) ==
  /\ lastOp' = name
  /\ emitted' = didEmit
  /\ sinceClose' = IF sinceClose = "no" THEN "no" ELSE "busy"
  /\ UNCHANGED <<lastPushed, superseded>>

openSearch ==
  /\ searchState' = [searchState EXCEPT !.isActive = TRUE]
  /\ NoteOp("openSearch", TRUE)
  /\ lastTargets' = <<>>
  /\ UNCHANGED <<searchOptions, debounceTimers, distinctKey>>
  /\ UNCHANGED nonSearchVars

\* the state closeSearch emits
ClosedState(mode) ==
  [query |-> EmptyString, isActive |-> FALSE, results |-> <<>>,
   currentIndex |-> 0, totalMatches |-> 0, searchMode |-> mode]

\* the value closeSearch pushes on the query stream
CloseQueryValue == EmptyString

\* a closeSearch that leaves the query stream alone
closeSearchNoPush ==
  /\ searchState' = ClosedState(searchState.searchMode)
  /\ lastOp' = "closeSearch"
  /\ emitted' = TRUE
  /\ sinceClose' = "quiet"
  /\ lastTargets' = <<>>
  /\ UNCHANGED <<searchOptions, distinctKey, debounceTimers, lastPushed, superseded>>
  /\ UNCHANGED nonSearchVars

closeSearch ==
  /\ searchState' = ClosedState(searchState.searchMode)
  /\ searchQuery_next(CloseQueryValue)
  /\ lastOp' = "closeSearch"
  /\ emitted' = TRUE
  /\ sinceClose' = "quiet"
  /\ lastTargets' = <<>>
  /\ UNCHANGED <<searchOptions, distinctKey>>
  /\ UNCHANGED nonSearchVars

toggleSearch ==
  IF searchState.isActive THEN closeSearch ELSE openSearch

\* a setSearchMode that changes the mode without notifying the subscribers
setSearchModeSilent(mode) ==
  /\ searchState' = [searchState EXCEPT !.searchMode = mode]
  /\ NoteOp("setSearchMode", FALSE)
  /\ lastTargets' = <<>>
  /\ UNCHANGED <<searchOptions, debounceTimers, distinctKey>>
  /\ UNCHANGED nonSearchVars

setSearchMode(mode) ==
  /\ searchState' = [searchState EXCEPT !.searchMode = mode]
  /\ NoteOp("setSearchMode", TRUE)
  /\ lastTargets' = <<>>
  /\ UNCHANGED <<searchOptions, debounceTimers, distinctKey>>
  /\ UNCHANGED nonSearchVars

\* an updateSearchQuery that leaves the query to the debounced subscriber
QueryUpdatedCursorOnly(state, query) == [state EXCEPT !.currentIndex = 0]

\* the state updateSearchQuery emits
QueryUpdated(state, query) ==
  [state EXCEPT !.query = query, !.currentIndex = 0]

updateSearchQuery(query) ==
  /\ searchState' = QueryUpdated(searchState, query)
  /\ searchQuery_next(query)
  /\ lastOp' = "updateSearchQuery"
  /\ emitted' = TRUE
  /\ sinceClose' = "no"
  /\ lastTargets' = <<>>
  /\ UNCHANGED <<searchOptions, distinctKey>>
  /\ UNCHANGED nonSearchVars

\* a clearResults that forgets to reset totalMatches
clearResultsKeepTotal(state) ==
  [state EXCEPT !.results = <<>>, !.currentIndex = 0]

\* the state clearResults emits
clearResults(state) ==
  [state EXCEPT !.results = <<>>, !.totalMatches = 0, !.currentIndex = 0]

AllOptions == [OptionKeys -> BOOLEAN]

\* searchInContent tabulated over the inputs of the model (evaluated once)
ContentSearch ==
  [query \in Queries \cup OverlayQueries,
   content \in Contents \cup OverlayContents \cup OverlayRendered,
   options \in AllOptions |->
     searchInContent(query, content, options)]

\* a forEach that puts each target's results before those collected so far
RECURSIVE CollectResultsPrepend(_, _, _, _)
CollectResultsPrepend(query, targets, options, allResults) ==
  IF targets = <<>> THEN allResults
  ELSE CollectResultsPrepend(query, Tail(targets), options,
         ContentSearch[query, Head(targets).content, options] \o allResults)

\* targets.forEach(target => allResults.push(...searchInContent(...)))
RECURSIVE CollectResults(_, _, _, _)
CollectResults(query, targets, options, allResults) ==
  IF targets = <<>> THEN allResults
  ELSE CollectResults(query, Tail(targets), options,
         allResults \o ContentSearch[query, Head(targets).content, options])

\* the state performSearch emits
Searched(state, targets, options) ==
  IF state.query = EmptyString \/ Len(targets) = 0
  THEN clearResults(state)
  ELSE LET allResults == CollectResults(state.query, targets, options, <<>>)
       IN [state EXCEPT !.results = allResults,
                        !.totalMatches = Len(allResults),
                        !.currentIndex = IF Len(allResults) > 0 THEN 1 ELSE 0]

performSearch(targets) ==
  /\ searchState' = Searched(searchState, targets, searchOptions)
  /\ NoteOp("performSearch", TRUE)
  /\ lastTargets' = targets
  /\ UNCHANGED <<searchOptions, debounceTimers, distinctKey>>
  /\ UNCHANGED nonSearchVars

\* a next that does not wrap
NextIndexNoWrap(state) == state.currentIndex + 1

NextIndex(state) ==
  IF state.currentIndex < state.totalMatches THEN state.currentIndex + 1 ELSE 1

navigateNext ==
  /\ IF searchState.totalMatches = 0
     THEN /\ UNCHANGED searchState
          /\ NoteOp("navigateNext", FALSE)
     ELSE /\ searchState' = [searchState EXCEPT !.currentIndex = NextIndex(searchState)]
          /\ NoteOp("navigateNext", TRUE)
  /\ lastTargets' = <<>>
  /\ UNCHANGED <<searchOptions, debounceTimers, distinctKey>>
  /\ UNCHANGED nonSearchVars

\* a previous that stops at the first match instead of wrapping
PreviousIndexNoWrap(state) == Max(1, state.currentIndex - 1)

PreviousIndex(state) ==
  IF state.currentIndex > 1 THEN state.currentIndex - 1 ELSE state.totalMatches

navigatePrevious ==
  /\ IF searchState.totalMatches = 0
     THEN /\ UNCHANGED searchState
          /\ NoteOp("navigatePrevious", FALSE)
     ELSE /\ searchState' = [searchState EXCEPT !.currentIndex = PreviousIndex(searchState)]
          /\ NoteOp("navigatePrevious", TRUE)
  /\ lastTargets' = <<>>
  /\ UNCHANGED <<searchOptions, debounceTimers, distinctKey>>
  /\ UNCHANGED nonSearchVars

getCurrentResult(state) ==
  IF state.currentIndex = 0 \/ Len(state.results) = 0 THEN <<>>
  ELSE IF state.currentIndex \in 1..Len(state.results)
    THEN <<state.results[state.currentIndex]>>
  ELSE <<>>

\* { ...this.searchOptions, ...options }
MergeOptions(current, options) ==
  [k \in OptionKeys |-> IF k \in DOMAIN options THEN options[k] ELSE current[k]]

updateSearchOptions(options) ==
  /\ searchOptions' = MergeOptions(searchOptions, options)
  /\ NoteOp("updateSearchOptions", FALSE)
  /\ lastTargets' = <<>>
  /\ UNCHANGED <<searchState, debounceTimers, distinctKey>>
  /\ UNCHANGED nonSearchVars

\* distinctUntilChanged: does the value pass
DistinctPasses(key, v) == key = <<>> \/ key[1] # v

\* the subscriber of debouncedSearch in the constructor
QueryDelivered(state, query) == [state EXCEPT !.query = query]

\* a debounceTime timer fires: its value goes through distinctUntilChanged
\* to the constructor's subscriber
debounceFire ==
  /\ debounceTimers # <<>>
  /\ LET v == Head(debounceTimers) IN
       /\ debounceTimers' = Tail(debounceTimers)
       /\ IF DistinctPasses(distinctKey, v)
          THEN /\ distinctKey' = <<v>>
               /\ searchState' = QueryDelivered(searchState, v)
               /\ emitted' = TRUE
          ELSE /\ UNCHANGED <<distinctKey, searchState>>
               /\ emitted' = FALSE
  /\ lastOp' = "debounceFire"
  /\ lastTargets' = <<>>
  /\ UNCHANGED <<searchOptions, sinceClose, lastPushed, superseded>>
  /\ UNCHANGED nonSearchVars

SearchNext ==
  \/ openSearch
  \/ closeSearch
  \/ toggleSearch
  \/ \E mode \in SearchModes : setSearchMode(mode)
  \/ \E query \in Queries : updateSearchQuery(query)
  \/ \E targets \in TargetLists : performSearch(targets)
  \/ navigateNext
  \/ navigatePrevious
  \/ debounceFire

\* the synchronous operations of a search session, the options changing as
\* well, while no debounce timer fires
OptionsNext ==
  \/ openSearch
  \/ closeSearch
  \/ \E query \in Queries : updateSearchQuery(query)
  \/ \E targets \in TargetLists : performSearch(targets)
  \/ navigateNext
  \/ navigatePrevious
  \/ \E options \in PartialOptions : updateSearchOptions(options)

\* ------------------------------------------------------------------------
\* Scroll Sync Engine (ScrollSyncService) and the panes
\* ------------------------------------------------------------------------

Panes == {"editor", "preview"}

Other(p) == IF p = "editor" THEN "preview" ELSE "editor"

\* content extents a pane can take (its viewport extent stays 2)
Heights(p) == IF p = "editor" THEN {2, 4} ELSE {2, 5}

ScrollInit ==
  /\ isSyncing = FALSE
  /\ editorElement = "null"
  /\ previewElement = "null"
  /\ editorScrollListener = FALSE
  /\ previewScrollListener = FALSE
  /\ listeners = [p \in Panes |-> 0]
  /\ scrollTop = [p \in Panes |-> 0]
  /\ scrollHeight = [p \in Panes |-> IF p = "editor" THEN 4 ELSE 5]
  /\ clientHeight = [p \in Panes |-> 2]
  /\ scrollPending = [p \in Panes |-> "none"]
  /\ smoothTarget = [p \in Panes |-> -1]
  /\ frames = 0
  /\ timeouts = <<>>
  /\ lastMirror = "none"

\* largest scroll offset the browser lets a pane take
MaxScrollTop(p) == Max(0, scrollHeight[p] - clientHeight[p])

\* the browser keeps an assigned scroll offset inside the scrollable range
ClampScroll(p, y) == Max(0, Min(y, MaxScrollTop(p)))

\* cause recorded for the scroll event of a pane whose offset was just
\* written: an event already pending keeps its cause
PendingAfterWrite(p, changed, cause) ==
  IF changed /\ scrollPending[p] = "none" THEN cause ELSE scrollPending[p]

\* calculateScrollPercentage: scrollTop / Math.max(1, scrollHeight -
\* clientHeight), kept as the fraction <<numerator, denominator>>
calculateScrollPercentage(p) ==
  <<scrollTop[p], Max(1, scrollHeight[p] - clientHeight[p])>>

\* an applyScrollPercentage that copies the offset of the source pane
applyScrollOffset(p, percentage) == ClampScroll(p, percentage[1])

\* applyScrollPercentage: the offset element.scrollTop holds after being
\* assigned percentage * Math.max(0, scrollHeight - clientHeight); offsets
\* are whole pixels, the assigned value is rounded down
applyScrollPercentage(p, percentage) ==
  LET maxScroll == Max(0, scrollHeight[p] - clientHeight[p])
  IN ClampScroll(p, (percentage[1] * maxScroll) \div percentage[2])

\* the write of a mirrored offset to pane target, for an event of this cause
MirrorWrite(source, target, cause) ==
  LET y == applyScrollPercentage(target, calculateScrollPercentage(source))
  IN /\ scrollTop' = [scrollTop EXCEPT ![target] = y]
     /\ scrollPending' =
          [scrollPending EXCEPT
             ![source] = "none",
             ![target] = PendingAfterWrite(target, y # scrollTop[target], "mirror")]
     /\ smoothTarget' = [smoothTarget EXCEPT ![target] = -1]
     /\ lastMirror' = cause

\* does the guard of syncFromEditor / syncFromPreview let the handler run
GuardClear ==
  ~(isSyncing \/ editorElement = "null" \/ previewElement = "null")

\* a cleanup() that forgets to call removeEventListener
ListenersKept == listeners

\* cleanup() as far as the installed listeners go
ListenersAfterCleanup ==
  [p \in Panes |->
     IF p = "editor"
     THEN IF editorElement # "null" /\ editorScrollListener
          THEN listeners[p] - 1 ELSE listeners[p]
     ELSE IF previewElement # "null" /\ previewScrollListener
          THEN listeners[p] - 1 ELSE listeners[p]]

\* an event raised by a mirrored write of an attachment that is torn down
\* is no longer an echo of the (new) attachment
PendingAfterDetach ==
  [p \in Panes |-> IF scrollPending[p] = "mirror" THEN "stale" ELSE scrollPending[p]]

\* the pending cool-down timers keep running when the Engine is set up or
\* torn down
TimeoutsAfterDetach ==
  [k \in 1..Len(timeouts) |-> [timeouts[k] EXCEPT !.detached = TRUE]]

cleanup ==
  /\ listeners' = ListenersAfterCleanup
  /\ editorElement' = "null"
  /\ previewElement' = "null"
  /\ editorScrollListener' = FALSE
  /\ previewScrollListener' = FALSE
  /\ isSyncing' = FALSE
  /\ scrollPending' = PendingAfterDetach
  /\ timeouts' = TimeoutsAfterDetach
  /\ UNCHANGED <<scrollTop, scrollHeight, clientHeight, smoothTarget, frames,
                 lastMirror>>
  /\ UNCHANGED nonScrollVars

\* setupSync(editorRef, previewRef); the arguments say whether querySelector
\* finds the textarea and the .preview-content element
setupSync(editorFound, previewFound) ==
  /\ isSyncing' = FALSE
  /\ editorElement' = IF editorFound THEN "editor" ELSE "null"
  /\ previewElement' = IF previewFound THEN "preview" ELSE "null"
  /\ IF editorFound /\ previewFound
     THEN /\ editorScrollListener' = TRUE
          /\ previewScrollListener' = TRUE
          /\ listeners' = [p \in Panes |-> ListenersAfterCleanup[p] + 1]
     ELSE /\ editorScrollListener' = FALSE
          /\ previewScrollListener' = FALSE
          /\ listeners' = ListenersAfterCleanup
  /\ scrollPending' = PendingAfterDetach
  /\ timeouts' = TimeoutsAfterDetach
  /\ UNCHANGED <<scrollTop, scrollHeight, clientHeight, smoothTarget, frames,
                 lastMirror>>
  /\ UNCHANGED nonScrollVars

\* syncFromEditor (source = "editor") and syncFromPreview (source =
\* "preview"), run for a scroll event of the given cause
syncFrom(source, cause) ==
  IF GuardClear
  THEN /\ frames < MaxFrames
       /\ isSyncing' = TRUE
       /\ MirrorWrite(source, Other(source), cause)
       /\ frames' = frames + 1
  ELSE /\ scrollPending' = [scrollPending EXCEPT ![source] = "none"]
       /\ UNCHANGED <<isSyncing, scrollTop, smoothTarget, lastMirror, frames>>

\* the browser delivers the pending scroll event of pane p
dispatchScroll(p) ==
  /\ scrollPending[p] # "none"
  /\ IF listeners[p] > 0
     THEN syncFrom(p, scrollPending[p])
     ELSE /\ scrollPending' = [scrollPending EXCEPT ![p] = "none"]
          /\ UNCHANGED <<isSyncing, scrollTop, smoothTarget, lastMirror, frames>>
  /\ UNCHANGED <<editorElement, previewElement, editorScrollListener,
                 previewScrollListener, listeners, scrollHeight, clientHeight,
                 timeouts>>
  /\ UNCHANGED nonScrollVars

\* the callback given to requestAnimationFrame runs
frameFire ==
  /\ frames > 0
  /\ frames' = frames - 1
  /\ isSyncing' = FALSE
  /\ UNCHANGED <<editorElement, previewElement, editorScrollListener,
                 previewScrollListener, listeners, scrollTop, scrollHeight,
                 clientHeight, scrollPending, smoothTarget, timeouts, lastMirror>>
  /\ UNCHANGED nonScrollVars

\* scrollToSearchResult(element, position); element is a pane or "null"
scrollToSearchResult(element, position) ==
  /\ IF element = "null"
     THEN UNCHANGED <<isSyncing, smoothTarget, timeouts>>
     ELSE /\ Len(timeouts) < MaxTimeouts
          /\ isSyncing' = TRUE
          /\ smoothTarget' =
               [smoothTarget EXCEPT
                  ![element] = IF ClampScroll(element, position) = scrollTop[element]
                               THEN -1 ELSE ClampScroll(element, position)]
          /\ timeouts' = Append(timeouts, [wasSync |-> isSyncing, detached |-> FALSE])
  /\ UNCHANGED <<editorElement, previewElement, editorScrollListener,
                 previewScrollListener, listeners, scrollTop, scrollHeight,
                 clientHeight, scrollPending, frames, lastMirror>>
  /\ UNCHANGED nonScrollVars

\* the callback given to setTimeout(..., 500) runs
timeoutFire ==
  /\ timeouts # <<>>
  /\ isSyncing' = Head(timeouts).wasSync
  /\ timeouts' = Tail(timeouts)
  /\ UNCHANGED <<editorElement, previewElement, editorScrollListener,
                 previewScrollListener, listeners, scrollTop, scrollHeight,
                 clientHeight, scrollPending, smoothTarget, frames, lastMirror>>
  /\ UNCHANGED nonScrollVars

isSyncActive == editorElement # "null" /\ previewElement # "null"

\* the user scrolls pane p to offset y (wheel, keyboard, scroll bar)
userScroll(p, y) ==
  /\ y \in 0..MaxScrollTop(p)
  /\ y # scrollTop[p]
  /\ scrollTop' = [scrollTop EXCEPT ![p] = y]
  /\ scrollPending' = [scrollPending EXCEPT ![p] = "external"]
  /\ smoothTarget' = [smoothTarget EXCEPT ![p] = -1]
  /\ UNCHANGED <<isSyncing, editorElement, previewElement, editorScrollListener,
                 previewScrollListener, listeners, scrollHeight, clientHeight,
                 frames, timeouts, lastMirror>>
  /\ UNCHANGED nonScrollVars

\* one frame of the smooth scroll started by element.scrollTo: the offset
\* moves towards the target, possibly reaching it
smoothStep(p, y) ==
  /\ smoothTarget[p] # -1
  /\ y # scrollTop[p]
  /\ \/ scrollTop[p] < y /\ y <= smoothTarget[p]
     \/ smoothTarget[p] <= y /\ y < scrollTop[p]
  /\ scrollTop' = [scrollTop EXCEPT ![p] = y]
  /\ scrollPending' = [scrollPending EXCEPT ![p] = PendingAfterWrite(p, TRUE, "smooth")]
  /\ smoothTarget' = [smoothTarget EXCEPT ![p] = IF y = smoothTarget[p] THEN -1 ELSE @]
  /\ UNCHANGED <<isSyncing, editorElement, previewElement, editorScrollListener,
                 previewScrollListener, listeners, scrollHeight, clientHeight,
                 frames, timeouts, lastMirror>>
  /\ UNCHANGED nonScrollVars

\* the content of pane p is laid out again with extent h; the browser keeps
\* the offset inside the new range
relayout(p, h) ==
  /\ h # scrollHeight[p]
  /\ scrollHeight' = [scrollHeight EXCEPT ![p] = h]
  /\ LET y == Max(0, Min(scrollTop[p], Max(0, h - clientHeight[p])))
     IN /\ scrollTop' = [scrollTop EXCEPT ![p] = y]
        /\ scrollPending' =
             [scrollPending EXCEPT
                ![p] = PendingAfterWrite(p, y # scrollTop[p], "external")]
        /\ smoothTarget' =
             [smoothTarget EXCEPT
                ![p] = IF @ = -1 \/ Max(0, Min(@, Max(0, h - clientHeight[p]))) = y
                       THEN -1 ELSE Max(0, Min(@, Max(0, h - clientHeight[p])))]
  /\ UNCHANGED <<isSyncing, editorElement, previewElement, editorScrollListener,
                 previewScrollListener, listeners, clientHeight, frames, timeouts,
                 lastMirror>>
  /\ UNCHANGED nonScrollVars

\* scroll offsets handed to userScroll, smoothStep and scrollToSearchResult
Offsets == 0..3

\* mirroring of the user's scrolling while the Engine is set up and torn down
ScrollNext ==
  \/ \E e, v \in BOOLEAN : setupSync(e, v)
  \/ cleanup
  \/ \E p \in Panes : dispatchScroll(p)
  \/ frameFire
  \/ \E p \in Panes : \E y \in Offsets : userScroll(p, y)
  \/ \E p \in Panes : \E h \in Heights(p) : relayout(p, h)

\* the user scrolls one pane, the editor, while the Engine is attached
MirrorNext ==
  \/ setupSync(TRUE, TRUE)
  \/ \E p \in Panes : dispatchScroll(p)
  \/ frameFire
  \/ \E y \in Offsets : userScroll("editor", y)

\* offsets of the search results scrolled to
ResultOffsets == {0, 2}

\* mirroring while search results are scrolled to: smooth scrolls and their
\* cool-down timers
CooldownNext ==
  \/ setupSync(TRUE, TRUE)
  \/ cleanup
  \/ \E p \in Panes : dispatchScroll(p)
  \/ frameFire
  \/ \E y \in Offsets : userScroll("editor", y)
  \/ \E element \in {"editor", "null"} : \E position \in ResultOffsets :
       scrollToSearchResult(element, position)
  \/ timeoutFire
  \/ \E p \in Panes : \E y \in Offsets : smoothStep(p, y)

\* no call of the Match Finder is under way
FinderIdle ==
  /\ findQuery = EmptyString
  /\ findText = EmptyString
  /\ findOptions = DefaultSearchOptions
  /\ findResult = <<>>

\* ------------------------------------------------------------------------
\* Editor view and Buffer Highlighter (MarkdownEditorComponent)
\* ------------------------------------------------------------------------

\* most setTimeout callbacks of openSearch pending at once
MaxOpenTimers == 1

\* most setTimeout callbacks of scrollToSelection pending at once
MaxSelectionTimers == 1

EditorInit ==
  /\ editorContent = EmptyString
  /\ showSearch = FALSE
  /\ editorQuery = EmptyString
  /\ currentMatch = 0
  /\ totalMatches = 0
  /\ searchMatches = <<>>
  /\ backdrop = <<>>
  /\ selection = <<0, 0>>
  /\ openTimers = 0
  /\ selectionTimers = <<>>

\* the indexOf loop of performSearch
RECURSIVE editorScan(_, _, _, _)
editorScan(query, text, index, matches) ==
  LET found == indexOf(text, query, index)
  IN IF found = -1 THEN matches
     ELSE editorScan(query, text, found + Len(query),
            Append(matches, [start |-> found, end |-> found + Len(query)]))

\* searchMatches as performSearch computes them
EditorMatches(query, content) ==
  IF query = EmptyString \/ content = EmptyString THEN <<>>
  ELSE editorScan(toLowerCase(query), toLowerCase(content), 0, <<>>)

\* escapeHtml: the innerHTML of a div whose textContent is the text
RECURSIVE escapeHtml(_)
escapeHtml(text) ==
  IF text = <<>> THEN <<>>
  ELSE (CASE Head(text) = "&" -> <<"&", "a", "m", "p", ";">>
          [] Head(text) = "<" -> <<"&", "l", "t", ";">>
          [] Head(text) = ">" -> <<"&", "g", "t", ";">>
          [] OTHER -> <<Head(text)>>) \o escapeHtml(Tail(text))

\* the tags of a highlight marker, each one element of the markup string
SpanCurrent == "<span class=\"search-highlight current\">"
SpanPlain == "<span class=\"search-highlight\">"
SpanClose == "</span>"

\* [...searchMatches].sort((a, b) => b.start - a.start)
RECURSIVE InsertDescending(_, _)
InsertDescending(m, sorted) ==
  IF sorted = <<>> THEN <<m>>
  ELSE IF Head(sorted).start - m.start > 0 \/ Head(sorted).start = m.start
    THEN <<Head(sorted)>> \o InsertDescending(m, Tail(sorted))
  ELSE <<m>> \o sorted

RECURSIVE SortDescending(_)
SortDescending(matches) ==
  IF matches = <<>> THEN <<>>
  ELSE InsertDescending(matches[Len(matches)],
                        SortDescending(SubSeq(matches, 1, Len(matches) - 1)))

\* the forEach of updateBackdropHighlights: each match of sortedMatches, from
\* position k on, is wrapped in the text built so far
RECURSIVE WrapMatches(_, _, _, _)
WrapMatches(highlightedText, sortedMatches, k, current) ==
  IF k > Len(sortedMatches) THEN highlightedText
  ELSE LET match == sortedMatches[k]
           isCurrent == (Len(sortedMatches) - (k - 1)) = current
           before == substring(highlightedText, 0, match.start)
           matchText == substring(highlightedText, match.start, match.end)
           after == substring(highlightedText, match.end, Len(highlightedText))
       IN WrapMatches(
            before \o <<IF isCurrent THEN SpanCurrent ELSE SpanPlain>>
                   \o escapeHtml(matchText) \o <<SpanClose>> \o after,
            sortedMatches, k + 1, current)

\* the string updateBackdropHighlights assigns to backdrop.innerHTML
updateBackdropHighlights(content, query, matches, current) ==
  IF query = EmptyString \/ Len(matches) = 0 THEN <<>>
  ELSE WrapMatches(content, SortDescending(matches), 1, current)

IsAsciiLetter(c) ==
  LetterIndex(c, UpperLetters) # 0 \/ LetterIndex(c, LowerLetters) # 0

IsMarkerTag(c) == c \in {SpanCurrent, SpanPlain, SpanClose}

\* HTML tokenizer inside a tag: the position after the ">" that ends the
\* tag (a marker tag met inside it ends with that ">"), or beyond the end
\* of the markup when the tag is never closed
RECURSIVE AfterTag(_, _)
AfterTag(html, i) ==
  IF i > Len(html) THEN i
  ELSE IF html[i] = ">" \/ IsMarkerTag(html[i]) THEN i + 1
  ELSE AfterTag(html, i + 1)

\* the character a reference at position i stands for, with its length
CharacterReference(html, i) ==
  IF SubSeq(html, i, Min(Len(html), i + 3)) = <<"&", "l", "t", ";">> THEN <<"<", 4>>
  ELSE IF SubSeq(html, i, Min(Len(html), i + 3)) = <<"&", "g", "t", ";">> THEN <<">", 4>>
  ELSE IF SubSeq(html, i, Min(Len(html), i + 4)) = <<"&", "a", "m", "p", ";">> THEN <<"&", 5>>
  ELSE <<"&", 1>>

\* textContent of the element whose innerHTML was set to html: the HTML
\* parser drops tags (a "<" followed by a letter opens one), decodes
\* character references and keeps every other character
RECURSIVE textContentFrom(_, _)
textContentFrom(html, i) ==
  IF i > Len(html) THEN <<>>
  ELSE IF IsMarkerTag(html[i]) THEN textContentFrom(html, i + 1)
  ELSE IF html[i] = "<" /\ i < Len(html) /\ IsAsciiLetter(html[i + 1])
    THEN textContentFrom(html, AfterTag(html, i + 1))
  ELSE IF html[i] = "&"
    THEN <<CharacterReference(html, i)[1]>>
           \o textContentFrom(html, i + CharacterReference(html, i)[2])
  ELSE <<html[i]>> \o textContentFrom(html, i + 1)

textContent(html) == textContentFrom(html, 1)

\* highlightCurrentMatch: setSelectionRange on the current match, then
\* scrollToSelection schedules its callback with the selectionStart it read
highlightCurrentMatch(matches, current) ==
  IF current = 0
  THEN UNCHANGED <<selection, selectionTimers>>
  ELSE /\ Len(selectionTimers) < MaxSelectionTimers
       /\ selection' = <<matches[current].start, matches[current].end>>
       /\ selectionTimers' = Append(selectionTimers, matches[current].start)

\* performSearch(highlightFirst) for the given searchQuery and content
editor_performSearch(query, content, highlightFirst) ==
  LET matches == EditorMatches(query, content)
  IN /\ searchMatches' = matches
     /\ totalMatches' = Len(matches)
     /\ currentMatch' = IF Len(matches) > 0 THEN 1 ELSE 0
     /\ backdrop' = IF Len(matches) > 0
                    THEN updateBackdropHighlights(content, query, matches, 1)
                    ELSE <<>>
     /\ IF Len(matches) > 0 /\ highlightFirst
        THEN highlightCurrentMatch(matches, 1)
        ELSE UNCHANGED <<selection, selectionTimers>>

\* onContentChange: the user edits the textarea, the caret ends at the end
onContentChange(value) ==
  /\ value # editorContent
  /\ editorContent' = value
  /\ IF showSearch /\ editorQuery # EmptyString
     THEN /\ editor_performSearch(editorQuery, value, FALSE)
          /\ UNCHANGED <<showSearch, editorQuery, openTimers>>
     ELSE UNCHANGED <<showSearch, editorQuery, currentMatch, totalMatches,
                      searchMatches, backdrop, openTimers, selectionTimers>>
  /\ IF showSearch /\ editorQuery # EmptyString
     THEN TRUE
     ELSE selection' = <<Len(value), Len(value)>>
  /\ UNCHANGED nonEditorVars

\* the user types in the search box: ngModel sets searchQuery and
\* onSearchQueryChange runs
onSearchQueryChange(query) ==
  /\ showSearch
  /\ query # editorQuery
  /\ editorQuery' = query
  /\ editor_performSearch(query, editorContent, FALSE)
  /\ UNCHANGED <<editorContent, showSearch, openTimers>>
  /\ UNCHANGED nonEditorVars

editor_openSearch ==
  /\ openTimers < MaxOpenTimers
  /\ showSearch' = TRUE
  /\ openTimers' = openTimers + 1
  /\ UNCHANGED <<editorContent, editorQuery, currentMatch, totalMatches,
                 searchMatches, backdrop, selection, selectionTimers>>
  /\ UNCHANGED nonEditorVars

getSelectedText == substring(editorContent, selection[1], selection[2])

\* the callback openSearch gave to setTimeout runs; the search input is in
\* the view while the search box is shown
openTimerFire ==
  /\ openTimers > 0
  /\ openTimers' = openTimers - 1
  /\ IF showSearch /\ getSelectedText # EmptyString
     THEN /\ editorQuery' = getSelectedText
          /\ editor_performSearch(getSelectedText, editorContent, TRUE)
     ELSE UNCHANGED <<editorQuery, currentMatch, totalMatches, searchMatches,
                      backdrop, selection, selectionTimers>>
  /\ UNCHANGED <<editorContent, showSearch>>
  /\ UNCHANGED nonEditorVars

\* a closeSearch that also empties the textarea
EditorCloseClearsBuffer ==
  /\ showSearch' = FALSE
  /\ editorQuery' = EmptyString
  /\ searchMatches' = <<>>
  /\ currentMatch' = 0
  /\ totalMatches' = 0
  /\ backdrop' = <<>>
  /\ editorContent' = EmptyString
  /\ UNCHANGED <<selection, openTimers, selectionTimers>>

\* closeSearch of the editor view, whoever calls it
EditorClose ==
  /\ showSearch' = FALSE
  /\ editorQuery' = EmptyString
  /\ searchMatches' = <<>>
  /\ currentMatch' = 0
  /\ totalMatches' = 0
  /\ backdrop' = <<>>
  /\ UNCHANGED <<editorContent, selection, openTimers, selectionTimers>>

editor_closeSearch ==
  /\ EditorClose
  /\ UNCHANGED nonEditorVars

\* findNext and findPrevious once the new currentMatch is known
MoveTo(newMatch) ==
  /\ currentMatch' = newMatch
  /\ backdrop' = updateBackdropHighlights(editorContent, editorQuery,
                                          searchMatches, newMatch)
  /\ highlightCurrentMatch(searchMatches, newMatch)
  /\ UNCHANGED <<editorContent, showSearch, editorQuery, totalMatches,
                 searchMatches, openTimers>>

\* findNext and findPrevious of the editor view, whoever calls them
EditorFindNext ==
  IF totalMatches = 0
  THEN UNCHANGED editorVars
  ELSE MoveTo(IF currentMatch < totalMatches THEN currentMatch + 1 ELSE 1)

EditorFindPrevious ==
  IF totalMatches = 0
  THEN UNCHANGED editorVars
  ELSE MoveTo(IF currentMatch > 1 THEN currentMatch - 1 ELSE totalMatches)

findNext ==
  /\ EditorFindNext
  /\ UNCHANGED nonEditorVars

findPrevious ==
  /\ EditorFindPrevious
  /\ UNCHANGED nonEditorVars

\* the callback scrollToSelection gave to setTimeout runs:
\* setSelectionRange(selectionStart, textarea.selectionEnd), the browser
\* ordering the two ends
selectionTimerFire ==
  /\ selectionTimers # <<>>
  /\ selectionTimers' = Tail(selectionTimers)
  /\ selection' = <<Min(Head(selectionTimers), selection[2]), selection[2]>>
  /\ UNCHANGED <<editorContent, showSearch, editorQuery, currentMatch,
                 totalMatches, searchMatches, backdrop, openTimers>>
  /\ UNCHANGED nonEditorVars

\* the user selects the characters start..end of the textarea
select(start, end) ==
  /\ start <= end
  /\ end <= Len(editorContent)
  /\ selection # <<start, end>>
  /\ selection' = <<start, end>>
  /\ UNCHANGED <<editorContent, showSearch, editorQuery, currentMatch,
                 totalMatches, searchMatches, backdrop, openTimers, selectionTimers>>
  /\ UNCHANGED nonEditorVars

\* texts typed into the textarea: "", "a", "<", "&", "aa", "a<", "&a",
\* "<a>" and "<b>a"
EditorContents ==
  {EmptyString, <<"a">>, <<"<">>, <<"&">>, <<"a", "a">>, <<"a", "<">>,
   <<"&", "a">>, <<"<", "a", ">">>, <<"<", "b", ">", "a">>}

\* queries typed into the search box: "", "a", "<" and "&"
EditorQueries == {EmptyString, <<"a">>, <<"<">>, <<"&">>}

\* ends of the selections the user makes
SelectionEnds == 0..2

EditorNext ==
  \/ \E value \in EditorContents : onContentChange(value)
  \/ \E query \in EditorQueries : onSearchQueryChange(query)
  \/ editor_openSearch
  \/ openTimerFire
  \/ editor_closeSearch
  \/ findNext
  \/ findPrevious
  \/ selectionTimerFire
  \/ \E start, end \in SelectionEnds : select(start, end)

\* ------------------------------------------------------------------------
\* Buffer Highlighter fed by the Search State Store (the
\* MarkdownEditorComponent of file-explorer.component.ts)
\* ------------------------------------------------------------------------

\* scrollToResult: setSelectionRange(result.start, result.end), the browser
\* keeping both ends inside the text
scrollToResult(result) ==
  selection' = <<Min(result.start, Len(editorContent)),
                 Min(result.end, Len(editorContent))>>

\* highlightSearchResults(query, results, currentIndex) with the values of
\* the state the store last emitted
editor_highlightSearchResults ==
  LET query == searchState.query
      results == searchState.results
      currentIndex == searchState.currentIndex
  IN /\ IF query = EmptyString \/ Len(results) = 0
        THEN /\ backdrop' = <<>>
             /\ UNCHANGED selection
        ELSE /\ backdrop' = updateBackdropHighlights(editorContent, query,
                                                     results, currentIndex)
             /\ IF currentIndex > 0 /\ currentIndex <= Len(results)
                THEN scrollToResult(results[currentIndex])
                ELSE UNCHANGED selection
     /\ UNCHANGED <<editorContent, showSearch, editorQuery, currentMatch,
                    totalMatches, searchMatches, openTimers, selectionTimers>>
     /\ UNCHANGED nonEditorVars

\* the targets the caller hands to performSearch: the buffer, the rendered
\* text, or both in either order
OverlayTargetLists ==
  LET buffer == [type |-> "editor", content |-> editorContent]
  IN {<<>>, <<buffer>>}
     \cup {<<[type |-> "preview", content |-> r]>> : r \in OverlayRendered}
     \cup {<<buffer, [type |-> "preview", content |-> r]>> : r \in OverlayRendered}
     \cup {<<[type |-> "preview", content |-> r], buffer>> : r \in OverlayRendered}

OverlayNext ==
  \/ \E value \in OverlayContents : onContentChange(value)
  \/ \E query \in OverlayQueries : updateSearchQuery(query)
  \/ \E targets \in OverlayTargetLists : performSearch(targets)
  \/ navigateNext
  \/ navigatePrevious
  \/ editor_highlightSearchResults

\* ------------------------------------------------------------------------
\* Tree Highlighter and preview view (MarkdownPreviewComponent)
\* ------------------------------------------------------------------------

\* bound on the pending requestAnimationFrame callbacks of the preview
MaxPreviewFrames == 1

\* the tags of a highlight marker, each one element of the markup string
MarkOpen == "<mark class=\"search-highlight\">"
MarkClose == "</mark>"

\* elements whose content the HTML parser reads as text, tags included
RawTextTags == {"textarea"}

OpenTag(tag) == IF tag = "textarea" THEN "<textarea>" ELSE "<p>"
CloseTag(tag) == IF tag = "textarea" THEN "</textarea>" ELSE "</p>"
TagOf(token) == IF token = "<textarea>" THEN "textarea" ELSE "p"

\* a tree is a sequence of elements, each holding a sequence of parts: text
\* nodes and marker elements
TextPart(text) == [mark |-> FALSE, text |-> text, current |-> FALSE]
MarkPart(text) == [mark |-> TRUE, text |-> text, current |-> FALSE]
Element(tag, text) == [tag |-> tag, parts |-> <<TextPart(text)>>]

\* the while loop of highlightMatches over one text node
RECURSIVE MarkLoop(_, _, _, _, _, _)
MarkLoop(text, lowerText, lowerQuery, queryLength, lastIndex, parts) ==
  LET index == indexOf(lowerText, lowerQuery, lastIndex) IN
    IF index = -1
      THEN IF lastIndex < Len(text)
             THEN Append(parts, TextPart(substring(text, lastIndex, Len(text))))
             ELSE parts
    ELSE MarkLoop(text, lowerText, lowerQuery, queryLength,
           index + queryLength,
           (IF index > lastIndex
              THEN Append(parts, TextPart(substring(text, lastIndex, index)))
              ELSE parts)
             \o <<MarkPart(substring(text, index, index + queryLength))>>)

\* the parts one text node is replaced by
MarkText(text, query) ==
  IF indexOf(toLowerCase(text), toLowerCase(query), 0) = -1
    THEN <<TextPart(text)>>
  ELSE MarkLoop(text, toLowerCase(text), toLowerCase(query), Len(query), 0, <<>>)

RECURSIVE MarkParts(_, _)
MarkParts(parts, query) ==
  IF parts = <<>> THEN <<>>
  ELSE (IF Head(parts).mark THEN <<Head(parts)>>
        ELSE MarkText(Head(parts).text, query))
       \o MarkParts(Tail(parts), query)

\* highlightMatches: every text node of the tree is replaced by its parts
highlightMatches(tree, query) ==
  [k \in 1..Len(tree) |->
     [tag |-> tree[k].tag, parts |-> MarkParts(tree[k].parts, query)]]

\* innerHTML getter: the markup a tree serializes to
RECURSIVE serializeParts(_)
serializeParts(parts) ==
  IF parts = <<>> THEN <<>>
  ELSE (IF Head(parts).mark
          THEN <<MarkOpen>> \o escapeHtml(Head(parts).text) \o <<MarkClose>>
        ELSE escapeHtml(Head(parts).text))
       \o serializeParts(Tail(parts))

RECURSIVE innerHTML(_)
innerHTML(tree) ==
  IF tree = <<>> THEN <<>>
  ELSE <<OpenTag(Head(tree).tag)>> \o serializeParts(Head(tree).parts)
         \o <<CloseTag(Head(tree).tag)>> \o innerHTML(Tail(tree))

\* position of the first item equal to token from position i on, or one
\* beyond the end of the markup
RECURSIVE IndexOfToken(_, _, _)
IndexOfToken(html, token, i) ==
  IF i > Len(html) \/ html[i] = token THEN i
  ELSE IndexOfToken(html, token, i + 1)

\* character data with its character references decoded
RECURSIVE decodeText(_, _)
decodeText(html, i) ==
  IF i > Len(html) THEN <<>>
  ELSE IF html[i] = "&"
    THEN <<CharacterReference(html, i)[1]>>
           \o decodeText(html, i + CharacterReference(html, i)[2])
  ELSE <<html[i]>> \o decodeText(html, i + 1)

\* HTML parser inside an ordinary element: text nodes and marker elements
RECURSIVE parseParts(_, _)
parseParts(html, i) ==
  IF i > Len(html) THEN <<>>
  ELSE IF html[i] = MarkOpen
    THEN LET j == IndexOfToken(html, MarkClose, i + 1) IN
           <<MarkPart(decodeText(SubSeq(html, i + 1, j - 1), 1))>>
             \o parseParts(html, j + 1)
  ELSE LET j == IndexOfToken(html, MarkOpen, i) IN
         <<TextPart(decodeText(SubSeq(html, i, j - 1), 1))>>
           \o parseParts(html, j)

\* innerHTML setter: the tree a markup parses to; the content of a raw-text
\* element is one text node whatever tags it spells
RECURSIVE parseHtml(_, _)
parseHtml(html, i) ==
  IF i > Len(html) THEN <<>>
  ELSE LET tag == TagOf(html[i])
           j == IndexOfToken(html, CloseTag(tag), i + 1)
           inner == SubSeq(html, i + 1, j - 1)
       IN <<[tag |-> tag,
             parts |-> IF tag \in RawTextTags
                         THEN IF inner = <<>> THEN <<>>
                              ELSE <<TextPart(decodeText(inner, 1))>>
                       ELSE parseParts(inner, 1)]>>
            \o parseHtml(html, j + 1)

\* number of marker elements in the parts
RECURSIVE CountMarks(_)
CountMarks(parts) ==
  IF parts = <<>> THEN 0
  ELSE (IF Head(parts).mark THEN 1 ELSE 0) + CountMarks(Tail(parts))

\* number of marker elements of the tree before part n of element k
RECURSIVE MarksBefore(_, _, _)
MarksBefore(tree, k, n) ==
  IF k = 0 THEN 0
  ELSE CountMarks(SubSeq(tree[k].parts, 1, n - 1))
         + (IF k = 1 THEN 0
            ELSE MarksBefore(tree, k - 1, Len(tree[k - 1].parts) + 1))

\* scrollToCurrentMatch: the class "current" is toggled on every element
\* of class search-highlight inside previewElement
scrollToCurrentMatch(tree, currentIndex) ==
  [k \in 1..Len(tree) |->
     [tag |-> tree[k].tag,
      parts |-> [n \in 1..Len(tree[k].parts) |->
                   IF tree[k].parts[n].mark
                     THEN [tree[k].parts[n] EXCEPT
                             !.current = (MarksBefore(tree, k, n) = currentIndex - 1)]
                   ELSE tree[k].parts[n]]]]

\* MarkdownPreviewComponent.originalHtmlContent
originalHtmlContent == innerHTML(previewTree)

\* the preview after construction: nothing rendered yet
PreviewInit ==
  /\ previewTree = <<>>
  /\ htmlContent = <<>>
  /\ previewDom = <<>>
  /\ previewFrames = <<>>

\* '<p class="empty-preview">Preview will appear here...</p>'
EmptyPreview ==
  <<Element("p", <<"P", "r", "e", "v", "i", "e", "w", " ", "w", "i", "l", "l",
                   " ", "a", "p", "p", "e", "a", "r", " ", "h", "e", "r", "e",
                   ".", ".", ".">>)>>

\* the view shows the markup: the binding of htmlContent sets the innerHTML
\* of previewElement
ShowMarkup(html) ==
  /\ htmlContent' = html
  /\ previewDom' = parseHtml(html, 1)

\* ngOnChanges -> renderMarkdown: the renderer turned the content into the
\* tree (the tree of an empty content is <<>>)
renderMarkdown(tree) ==
  /\ previewTree' = (IF tree = <<>> THEN EmptyPreview ELSE tree)
  /\ ShowMarkup(innerHTML(previewTree'))
  /\ UNCHANGED previewFrames
  /\ UNCHANGED nonPreviewVars

\* highlightSearchResults, whoever calls it
HighlightPass(query, results, currentIndex) ==
  /\ IF query = EmptyString \/ Len(results) = 0
       THEN /\ ShowMarkup(originalHtmlContent)
            /\ UNCHANGED previewFrames
     ELSE /\ Len(previewFrames) < MaxPreviewFrames
          /\ ShowMarkup(innerHTML(highlightMatches(
                          parseHtml(originalHtmlContent, 1), query)))
          /\ previewFrames' = Append(previewFrames,
                 [currentIndex |-> currentIndex, query |-> query])
  /\ UNCHANGED previewTree

highlightSearchResults(query, results, currentIndex) ==
  /\ HighlightPass(query, results, currentIndex)
  /\ UNCHANGED nonPreviewVars

\* a closeSearch of the preview view that leaves the shown markup as it is
PreviewCloseKeepsMarkup == UNCHANGED previewVars

\* closeSearch of the preview view, whoever calls it
PreviewClose ==
  /\ ShowMarkup(originalHtmlContent)
  /\ UNCHANGED <<previewTree, previewFrames>>

preview_closeSearch ==
  /\ PreviewClose
  /\ UNCHANGED nonPreviewVars

\* a requestAnimationFrame callback of highlightSearchResults runs
previewFrameFire ==
  /\ previewFrames # <<>>
  /\ previewDom' = scrollToCurrentMatch(previewDom,
                                         Head(previewFrames).currentIndex)
  /\ previewFrames' = Tail(previewFrames)
  /\ UNCHANGED <<previewTree, htmlContent>>
  /\ UNCHANGED nonPreviewVars

\* text nodes of the rendered documents: "a", "bA", "<a" and U+0130
\* followed by "a"
PreviewTexts == {<<"a">>, <<"b", "A">>, <<"<", "a">>, <<CapitalIDot, "a">>}

PreviewTags == {"p", "textarea"}

PreviewElements == {Element(tag, text) : tag \in PreviewTags, text \in PreviewTexts}

\* rendered documents: the empty one and those of one or two elements
PreviewTrees ==
  {<<>>} \cup {<<e>> : e \in PreviewElements}
         \cup {<<e, f>> : e, f \in PreviewElements}

\* queries highlighted in the preview: "", "a", "A", "b" and "."
PreviewQueries == {EmptyString, <<"a">>, <<"A">>, <<"b">>, <<".">>}

\* the results lists handed to highlightSearchResults
PreviewResults == {<<>>, <<1>>, <<1, 2>>}

PreviewIndexes == 0..2

PreviewNext ==
  \/ \E tree \in PreviewTrees : renderMarkdown(tree)
  \/ \E query \in PreviewQueries, results \in PreviewResults,
        currentIndex \in PreviewIndexes :
       highlightSearchResults(query, results, currentIndex)
  \/ preview_closeSearch
  \/ previewFrameFire

\* ------------------------------------------------------------------------
\* Application shell (AppComponent): search bar and view mode
\* ------------------------------------------------------------------------

\* bound on the pending setTimeout callbacks that install scroll listeners
MaxSetupTimers == 1

\* AppComponent.currentFileContent: the content input of the editor view is
\* bound to it and onContentChanged copies the editor's content into it
currentFileContent == editorContent

ViewModes == {"preview", "edit", "split"}

AppSearchInit ==
  /\ viewMode = "preview"
  /\ appShowSearch = FALSE
  /\ appSearchQuery = EmptyString
  /\ appCurrentMatch = 0
  /\ appTotalMatches = 0
  /\ appLastOp = <<>>

\* the listeners on the panes once the view shows the new mode: the
\* elements of the panes in removed were taken out of the document or
\* created anew by the change of mode (the template decides which), and
\* their listeners went with them
ListenersAfterToggle(removed) ==
  [p \in {"editor", "preview"} |-> IF p \in removed THEN 0 ELSE appListeners[p]]

\* toggleViewMode: preview -> edit -> split -> preview; entering split mode
\* schedules setupScrollListeners; removed holds the panes whose elements
\* the view replaces
toggleViewMode(removed) ==
  /\ viewMode' = (CASE viewMode = "preview" -> "edit"
                    [] viewMode = "edit" -> "split"
                    [] OTHER -> "preview")
  /\ IF viewMode' = "split"
     THEN /\ setupTimers < MaxSetupTimers
          /\ setupTimers' = setupTimers + 1
     ELSE UNCHANGED setupTimers
  /\ appLastOp' = <<"toggleViewMode">>
  /\ appListeners' = ListenersAfterToggle(removed)
  /\ UNCHANGED <<appShowSearch, appSearchQuery, appCurrentMatch, appTotalMatches>>
  /\ UNCHANGED <<appFileVars, pointerEvents, pointerTimers>>
  /\ UNCHANGED <<searchVars, scrollVars, finderVars, editorVars, previewVars>>

\* openSearch (its setTimeout callback only moves the focus)
AppOpen(caller) ==
  /\ appShowSearch' = TRUE
  /\ appLastOp' = Append(caller, "openSearch")
  /\ UNCHANGED <<viewMode, appSearchQuery, appCurrentMatch, appTotalMatches>>
  /\ UNCHANGED <<editorVars, previewVars>>

\* closeSearch: the fields are reset and both views are told to close
AppClose(caller) ==
  /\ appShowSearch' = FALSE
  /\ appSearchQuery' = EmptyString
  /\ appCurrentMatch' = 0
  /\ appTotalMatches' = 0
  /\ appLastOp' = Append(caller, "closeSearch")
  /\ EditorClose
  /\ PreviewClose
  /\ UNCHANGED viewMode

\* toggleSearch
AppToggle ==
  IF appShowSearch THEN AppClose(<<"toggleSearch">>) ELSE AppOpen(<<"toggleSearch">>)

\* what the preview branch of performSearch, findNext and findPrevious does:
\* the preview view runs a highlight pass for the query with the results
\* and the index it holds, and the shell copies its counters
PreviewPass(query, copyTotal) ==
  \E results \in {<<>>, <<1>>} :
    \E currentIndex \in 0..Len(results) :
      /\ HighlightPass(query, results, currentIndex)
      /\ appCurrentMatch' = currentIndex
      /\ appTotalMatches' = IF copyTotal THEN Len(results) ELSE appTotalMatches
      /\ UNCHANGED editorVars

\* performSearch for the query ngModel stored in searchQuery
AppPerformSearch(query) ==
  /\ appSearchQuery' = query
  /\ appLastOp' = <<"performSearch">>
  /\ UNCHANGED <<viewMode, appShowSearch>>
  /\ IF query = EmptyString \/ currentFileContent = EmptyString
     THEN /\ appCurrentMatch' = 0
          /\ appTotalMatches' = 0
          /\ UNCHANGED <<editorVars, previewVars>>
     ELSE IF viewMode = "preview"
       THEN PreviewPass(query, TRUE)
     ELSE /\ editorQuery' = query
          /\ editor_performSearch(query, editorContent, FALSE)
          /\ appCurrentMatch' = currentMatch'
          /\ appTotalMatches' = totalMatches'
          /\ UNCHANGED <<editorContent, showSearch, openTimers>>
          /\ UNCHANGED previewVars

AppFindNext ==
  /\ appLastOp' = <<"findNext">>
  /\ UNCHANGED <<viewMode, appShowSearch, appSearchQuery>>
  /\ IF viewMode = "preview"
     THEN PreviewPass(appSearchQuery, FALSE)
     ELSE /\ EditorFindNext
          /\ appCurrentMatch' = currentMatch'
          /\ UNCHANGED appTotalMatches
          /\ UNCHANGED previewVars

AppFindPrevious ==
  /\ appLastOp' = <<"findPrevious">>
  /\ UNCHANGED <<viewMode, appShowSearch, appSearchQuery>>
  /\ IF viewMode = "preview"
     THEN PreviewPass(appSearchQuery, FALSE)
     ELSE /\ EditorFindPrevious
          /\ appCurrentMatch' = currentMatch'
          /\ UNCHANGED appTotalMatches
          /\ UNCHANGED previewVars

\* the handler ran nothing
AppIgnore ==
  /\ appLastOp' = <<>>
  /\ UNCHANGED <<viewMode, appShowSearch, appSearchQuery, appCurrentMatch,
                 appTotalMatches>>
  /\ UNCHANGED <<editorVars, previewVars>>

Keys == {"Ctrl+F", "F3", "Shift+F3", "Escape"}

\* onGlobalKeyDown; inInput says whether the focus is in an input or a
\* textarea
onGlobalKeyDown(key, inInput) ==
  /\ IF inInput /\ key \notin {"Ctrl+F", "F3", "Shift+F3"} THEN AppIgnore
     ELSE IF key = "Ctrl+F" THEN AppToggle
     ELSE IF key = "F3" THEN AppFindNext
     ELSE IF key = "Shift+F3" THEN AppFindPrevious
     ELSE IF key = "Escape" /\ appShowSearch THEN AppClose(<<>>)
     ELSE AppIgnore
  /\ UNCHANGED nonAppSearchVars

\* the user types in the search input of the shell: ngModel sets
\* searchQuery and onSearchQueryChange runs
app_onSearchQueryChange(query) ==
  /\ appShowSearch
  /\ query # appSearchQuery
  /\ AppPerformSearch(query)
  /\ UNCHANGED nonAppSearchVars

app_closeSearch ==
  /\ AppClose(<<>>)
  /\ UNCHANGED nonAppSearchVars

\* ------------------------------------------------------------------------
\* Application shell (AppComponent): the files it opens
\* ------------------------------------------------------------------------

\* bound on the reads of one file that are under way
MaxReads == 1

Paths == {"f1", "f2"}

\* contents of the files and of the documents typed: "aa", "a" and ""
FileContents == {<<"a", "a">>, <<"a">>, EmptyString}

AppFileInit ==
  /\ currentFilePath = "null"
  /\ workspaceFiles = {}
  /\ disk = [path \in Paths |-> IF path = "f1" THEN <<"a", "a">> ELSE <<"a">>]
  /\ pendingReads = [path \in Paths |-> 0]
  /\ bufferOf = "null"

\* what the file handlers of the application shell leave alone
nonAppFileVars ==
  <<searchVars, scrollVars, finderVars, previewVars, appScrollVars, viewMode,
    appShowSearch, appSearchQuery, appCurrentMatch, appTotalMatches>>

\* what the file handlers leave alone in the editor view
editorSearchVars ==
  <<showSearch, editorQuery, currentMatch, totalMatches, searchMatches, backdrop,
    openTimers, selectionTimers>>

\* onFileOpened: the path becomes current and the read of the file starts
onFileOpened(filePath) ==
  /\ pendingReads[filePath] < MaxReads
  /\ currentFilePath' = filePath
  /\ pendingReads' = [pendingReads EXCEPT ![filePath] = @ + 1]
  /\ appLastOp' = <<"onFileOpened">>
  /\ UNCHANGED <<workspaceFiles, disk, bufferOf>>
  /\ UNCHANGED editorVars
  /\ UNCHANGED nonAppFileVars

\* a readFile promise is fulfilled and the callback of onFileOpened stores
\* the content; the textarea shows it with the caret at its end
readComplete(filePath) ==
  /\ pendingReads[filePath] > 0
  /\ pendingReads' = [pendingReads EXCEPT ![filePath] = @ - 1]
  /\ editorContent' = disk[filePath]
  /\ selection' = <<Len(disk[filePath]), Len(disk[filePath])>>
  /\ bufferOf' = filePath
  /\ UNCHANGED <<currentFilePath, workspaceFiles, disk, appLastOp>>
  /\ UNCHANGED editorSearchVars
  /\ UNCHANGED nonAppFileVars

onFileAdded(filePath) ==
  /\ workspaceFiles' = workspaceFiles \cup {filePath}
  /\ appLastOp' = <<"onFileAdded">>
  /\ UNCHANGED <<currentFilePath, disk, pendingReads, bufferOf>>
  /\ UNCHANGED editorVars
  /\ UNCHANGED nonAppFileVars

\* onFileRemoved (and onFileDeleted, which calls it)
onFileRemoved(filePath) ==
  /\ appLastOp' = <<"onFileRemoved">>
  /\ IF filePath \in workspaceFiles
     THEN /\ workspaceFiles' = workspaceFiles \ {filePath}
          /\ IF currentFilePath = filePath
             THEN /\ currentFilePath' = "null"
                  /\ editorContent' = EmptyString
                  /\ selection' = <<0, 0>>
                  /\ bufferOf' = "null"
             ELSE UNCHANGED <<currentFilePath, editorContent, selection, bufferOf>>
     ELSE UNCHANGED <<workspaceFiles, currentFilePath, editorContent, selection,
                      bufferOf>>
  /\ UNCHANGED <<disk, pendingReads>>
  /\ UNCHANGED editorSearchVars
  /\ UNCHANGED nonAppFileVars

\* onNewFileCreated: the file was created with the content and is opened
onNewFileCreated(filePath, content) ==
  /\ currentFilePath' = filePath
  /\ editorContent' = content
  /\ selection' = <<Len(content), Len(content)>>
  /\ bufferOf' = filePath
  /\ disk' = [disk EXCEPT ![filePath] = content]
  /\ workspaceFiles' = workspaceFiles \cup {filePath}
  /\ appLastOp' = <<"onNewFileCreated">>
  /\ UNCHANGED pendingReads
  /\ UNCHANGED editorSearchVars
  /\ UNCHANGED nonAppFileVars

\* saveFile: the buffer is written to the current path
saveFile ==
  /\ disk' = IF currentFilePath = "null" THEN disk
             ELSE [disk EXCEPT ![currentFilePath] = currentFileContent]
  /\ appLastOp' = <<"saveFile">>
  /\ UNCHANGED <<currentFilePath, workspaceFiles, pendingReads, bufferOf>>
  /\ UNCHANGED editorVars
  /\ UNCHANGED nonAppFileVars

\* ------------------------------------------------------------------------
\* Application shell (AppComponent): its own scroll handler
\* ------------------------------------------------------------------------

\* bound on the pending setTimeout callbacks of handleDirectScroll
MaxPointerTimers == 2

\* most listeners of the shell counted on one pane
MaxAppListeners == 2

\* ngAfterViewInit has called setupScrollListeners
AppScrollInit ==
  /\ appListeners = [p \in Panes |-> 0]
  /\ setupTimers = 1
  /\ pointerEvents = [p \in Panes |-> ""]
  /\ pointerTimers = <<>>

AppInit == AppSearchInit /\ AppFileInit /\ AppScrollInit

\* addEventListener with a new arrow function on each pane found: the
\* listener is added to those the element has
ListenersAfterSetup(editorFound, previewFound) ==
  [p \in Panes |->
     appListeners[p] + (IF (IF p = "editor" THEN editorFound ELSE previewFound)
                        THEN 1 ELSE 0)]

\* the callback of setupScrollListeners runs; the arguments say whether
\* querySelector finds the textarea and the .preview-content element (both
\* are in the view in split mode)
setupTimerFire(editorFound, previewFound) ==
  /\ setupTimers > 0
  /\ viewMode = "split" => (editorFound /\ previewFound)
  /\ setupTimers' = setupTimers - 1
  /\ appListeners' = ListenersAfterSetup(editorFound, previewFound)
  /\ \A p \in Panes : appListeners'[p] <= MaxAppListeners
  /\ UNCHANGED <<pointerEvents, pointerTimers>>
  /\ UNCHANGED <<appSearchVars, appFileVars>>
  /\ UNCHANGED <<searchVars, scrollVars, finderVars, editorVars, previewVars>>

\* handleDirectScroll(event, sourceType) for a scroll event of the given
\* cause on pane source, run by each listener of the pane in turn: the runs
\* after the first write the same offset again, and each schedules its timer
handleDirectScroll(source, cause) ==
  IF viewMode # "split"
  THEN /\ scrollPending' = [scrollPending EXCEPT ![source] = "none"]
       /\ UNCHANGED <<scrollTop, smoothTarget, lastMirror, pointerEvents,
                      pointerTimers>>
  ELSE /\ Len(pointerTimers) + appListeners[source] <= MaxPointerTimers
       /\ MirrorWrite(source, Other(source), cause)
       /\ pointerEvents' = [pointerEvents EXCEPT ![Other(source)] = "none"]
       /\ pointerTimers' =
            pointerTimers \o [k \in 1..appListeners[source] |-> Other(source)]

\* the browser delivers the pending scroll event of pane p to the
\* listeners of the application shell
app_dispatchScroll(p) ==
  /\ scrollPending[p] # "none"
  /\ IF appListeners[p] > 0
     THEN handleDirectScroll(p, scrollPending[p])
     ELSE /\ scrollPending' = [scrollPending EXCEPT ![p] = "none"]
          /\ UNCHANGED <<scrollTop, smoothTarget, lastMirror, pointerEvents,
                         pointerTimers>>
  /\ UNCHANGED <<isSyncing, editorElement, previewElement, editorScrollListener,
                 previewScrollListener, listeners, scrollHeight, clientHeight,
                 frames, timeouts>>
  /\ UNCHANGED <<appListeners, setupTimers>>
  /\ UNCHANGED <<appSearchVars, appFileVars>>
  /\ UNCHANGED <<searchVars, finderVars, editorVars, previewVars>>

\* the callback handleDirectScroll gave to setTimeout(..., 10) runs
pointerTimerFire ==
  /\ pointerTimers # <<>>
  /\ pointerEvents' = [pointerEvents EXCEPT ![Head(pointerTimers)] = ""]
  /\ pointerTimers' = Tail(pointerTimers)
  /\ UNCHANGED <<appListeners, setupTimers>>
  /\ UNCHANGED <<appSearchVars, appFileVars>>
  /\ UNCHANGED <<searchVars, scrollVars, finderVars, editorVars, previewVars>>

\* the document typed into the textarea while the shell is used: "aa"
AppContents == {<<"a", "a">>}

\* queries typed into the search input of the shell
AppQueries == {EmptyString, <<"a">>}

\* the rendered document shown while the shell is used
AppTrees == {<<Element("p", <<"b", "A">>), Element("p", <<"a">>)>>}

\* the search bar, the view mode and the views of the application shell
AppNext ==
  \/ toggleViewMode({"editor", "preview"})
  \/ setupTimerFire(TRUE, TRUE)
  \/ \E key \in Keys : \E inInput \in BOOLEAN : onGlobalKeyDown(key, inInput)
  \/ \E query \in AppQueries : app_onSearchQueryChange(query)
  \/ app_closeSearch
  \/ \E value \in AppContents : onContentChange(value)
  \/ \E tree \in AppTrees : renderMarkdown(tree)
  \/ previewFrameFire
  \/ selectionTimerFire

\* the documents of the application shell: opening, removing, creating and
\* saving files
FileNext ==
  \/ \E path \in Paths : onFileOpened(path)
  \/ \E path \in Paths : readComplete(path)
  \/ \E path \in Paths : onFileAdded(path)
  \/ \E path \in Paths : onFileRemoved(path)
  \/ \E path \in Paths : onNewFileCreated(path, EmptyString)
  \/ saveFile

\* a search in the editor view while documents are opened
SwitchNext ==
  \/ \E path \in Paths : onFileOpened(path)
  \/ \E path \in Paths : readComplete(path)
  \/ toggleViewMode({"editor", "preview"})
  \/ setupTimerFire(TRUE, TRUE)
  \/ onGlobalKeyDown("Ctrl+F", FALSE)
  \/ \E query \in AppQueries : app_onSearchQueryChange(query)

\* the scroll handler of the application shell while the view mode changes
AppScrollNext ==
  \/ \E removed \in SUBSET Panes : toggleViewMode(removed)
  \/ \E e, v \in BOOLEAN : setupTimerFire(e, v)
  \/ \E p \in Panes : app_dispatchScroll(p)
  \/ pointerTimerFire
  \/ \E p \in Panes : \E y \in Offsets : userScroll(p, y)
  \/ \E p \in Panes : \E h \in Heights(p) : relayout(p, h)

Init ==
  /\ SearchInit
  /\ ScrollInit
  /\ FinderIdle
  /\ EditorInit
  /\ PreviewInit
  /\ AppInit

\* the editor view: typing, searching in it and moving between the matches
EditorSpec == Init /\ [][EditorNext]_vars

\* the preview view: rendering, highlighting and closing the search
PreviewSpec == Init /\ [][PreviewNext]_vars

\* the application shell: its search bar over the two views
AppSpec == Init /\ [][AppNext]_vars

\* the application shell: its documents
FileSpec == Init /\ [][FileNext]_vars

\* the application shell: documents opened while the buffer is searched
SwitchSpec == Init /\ [][SwitchNext]_vars

\* the application shell: its scroll handler
AppScrollSpec == Init /\ [][AppScrollNext]_vars

\* "The cat sat on the mat"
CatText ==
  <<"T", "h", "e", " ", "c", "a", "t", " ", "s", "a", "t", " ",
    "o", "n", " ", "t", "h", "e", " ", "m", "a", "t">>

\* queries given to the Match Finder: "", "at", "a", "A", "a*", "*", "**",
\* ".", "a.", "a\B" and "\"
FinderQueries ==
  {EmptyString, <<"a", "t">>, <<"a">>, <<"A">>, <<"a", "*">>, <<"*">>,
   <<"*", "*">>, <<".">>, <<"a", ".">>, <<"a", "\\", "B">>, <<"\\">>}

\* texts given to the Match Finder: CatText, "aA*a", "ab a", "a.a*", "***",
\* "a\B", U+0130 followed by "a", and the empty text
FinderTexts ==
  {CatText, <<"a", "A", "*", "a">>, <<"a", "b", " ", "a">>,
   <<"a", ".", "a", "*">>, <<"*", "*", "*">>, <<"a", "\\", "B">>,
   <<CapitalIDot, "a">>, EmptyString}

\* the arguments of one call of searchInContent
FinderInit ==
  /\ SearchInit
  /\ ScrollInit
  /\ EditorInit
  /\ PreviewInit
  /\ AppInit
  /\ findQuery \in FinderQueries
  /\ findText \in FinderTexts
  /\ findOptions \in AllOptions
  /\ findResult = <<>>

\* the call returns
find ==
  /\ findResult = <<>>
  /\ findResult' = <<searchInContent(findQuery, findText, findOptions)>>
  /\ UNCHANGED <<findQuery, findText, findOptions>>
  /\ UNCHANGED nonFinderVars

FinderNext == find

\* the Match Finder applied to every query, text and options of the model
FinderSpec == FinderInit /\ [][FinderNext]_vars

Next == SearchNext

\* the Search State Store with the options left at their defaults
Spec == Init /\ [][Next]_vars

\* the Search State Store with changing options, within one quiet period
OptionsSpec == Init /\ [][OptionsNext]_vars

\* the Buffer Highlighter rendering the states of the Search State Store
OverlaySpec == Init /\ [][OverlayNext]_vars

\* the Scroll Sync Engine, the two panes and the browser's callbacks
ScrollSpec == Init /\ [][ScrollNext]_vars

\* the Scroll Sync Engine while the user scrolls the editor only
MirrorSpec == Init /\ [][MirrorNext]_vars

\* the Scroll Sync Engine while search results are scrolled to
CooldownSpec == Init /\ [][CooldownNext]_vars


\* ------------------------------------------------------------------------
\* Properties of the Search State Store
\* ------------------------------------------------------------------------

\* the canonical empty, inactive state
IsCanonicalInactive(state) ==
  /\ state.query = EmptyString
  /\ ~state.isActive
  /\ state.results = <<>>
  /\ state.currentIndex = 0
  /\ state.totalMatches = 0

\* C1: whenever isActive is false, results is empty and cursorIndex is 0
C1_InactiveHasNoResults ==
  ~searchState.isActive =>
    (searchState.results = <<>> /\ searchState.currentIndex = 0)

\* C3: after close, as long as setQuery is not called again, no debounce
\* timer is pending and the debounced channel does not fire
C3_CloseCancelsPendingTimer ==
  sinceClose # "no" => (debounceTimers = <<>> /\ lastOp # "debounceFire")

\* C4: when the settled debounced channel delivers q, results, totalMatches
\* and cursorIndex are those of a search for q against the targets
C4_DebounceRecomputesResults ==
  (lastOp = "debounceFire" /\ emitted) =>
    \E targets \in TargetLists :
      /\ searchState.results =
           CollectResults(searchState.query, targets, searchOptions, <<>>)
      /\ searchState.totalMatches = Len(searchState.results)
      /\ searchState.currentIndex = IF searchState.results = <<>> THEN 0 ELSE 1

\* C5: from close on, while only timers fire, the state is the canonical
\* inactive state, the only value a timer can still deliver is the empty
\* query, and a query that was pending at close is never delivered
C5_CloseBeforeDebounceElapses ==
  sinceClose = "quiet" =>
    /\ IsCanonicalInactive(searchState)
    /\ \A i \in 1..Len(debounceTimers) : debounceTimers[i] = EmptyString
    /\ distinctKey # <<>> /\ lastOp = "debounceFire" => distinctKey[1] = EmptyString

\* C5 witness: close came while a non-empty query was pending, and the
\* timer has fired since
C5_Witness ==
  /\ sinceClose = "quiet"
  /\ superseded
  /\ lastOp = "debounceFire"
  /\ debounceTimers = <<>>

\* C6: at most one timer is pending; a firing timer delivers the most
\* recently pushed value, and never the value delivered just before
C6_DebounceDeliversLatestOnce ==
  [][/\ Len(debounceTimers') <= 1
     /\ (lastOp' = "debounceFire" /\ emitted') =>
          /\ distinctKey' = lastPushed
          /\ searchState'.query = lastPushed[1]
          /\ distinctKey # distinctKey'
     /\ (lastOp' = "debounceFire" /\ ~emitted') =>
          /\ distinctKey' = distinctKey
          /\ distinctKey = lastPushed
          /\ searchState' = searchState]_vars

\* C6 witness: a pending value was superseded and the later value delivered
C6_Witness ==
  /\ lastOp = "debounceFire"
  /\ emitted
  /\ superseded
  /\ distinctKey = lastPushed

\* C7: cursorIndex is 0 or lies in 1..totalMatches
C7_CursorInRange ==
  \/ searchState.currentIndex = 0
  \/ searchState.currentIndex \in 1..searchState.totalMatches

\* C7 witness: previous has wrapped the cursor to the last of several matches
C7_Witness ==
  /\ lastOp = "navigatePrevious"
  /\ searchState.totalMatches >= 2
  /\ searchState.currentIndex = searchState.totalMatches

\* C8: totalMatches equals the length of results
C8_TotalIsLength ==
  searchState.totalMatches = Len(searchState.results)

\* C8 witness: a search over two targets has stored their matches
C8_Witness ==
  /\ lastOp = "performSearch"
  /\ Len(lastTargets) = 2
  /\ Len(searchState.results) >= 4

\* the state after next() and after previous()
AfterNext(state) ==
  IF state.totalMatches = 0 THEN state
  ELSE [state EXCEPT !.currentIndex = NextIndex(state)]

AfterPrevious(state) ==
  IF state.totalMatches = 0 THEN state
  ELSE [state EXCEPT !.currentIndex = PreviousIndex(state)]

RECURSIVE AfterNexts(_, _)
AfterNexts(state, n) ==
  IF n = 0 THEN state ELSE AfterNexts(AfterNext(state), n - 1)

\* C9: navigation is cyclic. With N = totalMatches > 0, next moves c to c+1
\* below N and from N to 1, previous moves c to c-1 above 1 and from 1 to N;
\* for c in 1..N next-previous, previous-next and N nexts return to c; with
\* N = 0 both leave the state unchanged
C9_NavigationCyclic ==
  [][LET N == searchState.totalMatches
         c == searchState.currentIndex
     IN /\ lastOp' = "navigateNext" =>
             /\ N = 0 => searchState' = searchState
             /\ N > 0 => searchState' =
                  [searchState EXCEPT !.currentIndex = IF c < N THEN c + 1 ELSE 1]
        /\ lastOp' = "navigatePrevious" =>
             /\ N = 0 => searchState' = searchState
             /\ N > 0 /\ c >= 1 => searchState' =
                  [searchState EXCEPT !.currentIndex = IF c > 1 THEN c - 1 ELSE N]
        /\ (N > 0 /\ c \in 1..N) =>
             /\ AfterPrevious(AfterNext(searchState)) = searchState
             /\ AfterNext(AfterPrevious(searchState)) = searchState
             /\ AfterNexts(searchState, N) = searchState]_vars

\* C9 witness: next has wrapped around several matches
C9_Witness ==
  /\ lastOp = "navigateNext"
  /\ emitted
  /\ searchState.totalMatches >= 2
  /\ searchState.currentIndex = 1

\* the spans the Match Finder returns for each target, in target order
FinderSpans(query, targets, options) ==
  [k \in 1..Len(targets) |-> searchInContent(query, targets[k].content, options)]

RECURSIVE SumLen(_, _)
SumLen(parts, k) == IF k = 0 THEN 0 ELSE SumLen(parts, k - 1) + Len(parts[k])

\* r is the concatenation of the sequences parts[1], parts[2], ...
IsConcatenation(r, parts) ==
  /\ Len(r) = SumLen(parts, Len(parts))
  /\ \A k \in 1..Len(parts) : \A j \in 1..Len(parts[k]) :
       r[SumLen(parts, k - 1) + j] = parts[k][j]

\* C10: a search with a non-empty query stores the Match Finder's spans of
\* the targets, concatenated in target order and in ascending offset within
\* a target, with totalMatches their number and cursorIndex 1 when there is
\* one and 0 otherwise; with an empty query or no targets it stores no
\* result, totalMatches 0 and cursorIndex 0
C10_SearchConcatenatesTargets ==
  lastOp = "performSearch" =>
    LET parts == FinderSpans(searchState.query, lastTargets, searchOptions)
    IN /\ IsConcatenation(searchState.results, parts)
       /\ \A k \in 1..Len(parts) : \A i, j \in 1..Len(parts[k]) :
            i < j => parts[k][i].start < parts[k][j].start
       /\ searchState.totalMatches = Len(searchState.results)
       /\ searchState.currentIndex = IF Len(searchState.results) > 0 THEN 1 ELSE 0
       /\ (searchState.query = EmptyString \/ lastTargets = <<>>) =>
            (searchState.totalMatches = 0 /\ searchState.currentIndex = 0)

\* C10 witness: two targets with different contents both contributed spans,
\* found with a regular expression
C10_Witness ==
  /\ lastOp = "performSearch"
  /\ searchOptions.useRegex
  /\ Len(lastTargets) = 2
  /\ lastTargets[1].content # lastTargets[2].content
  /\ \A k \in 1..2 :
       searchInContent(searchState.query, lastTargets[k].content, searchOptions) # <<>>

\* C11: updateSearchQuery(q) leaves query = q and cursorIndex = 0 in the
\* state as it returns, with the timer for q still pending; a search that
\* runs next, before any timer fires, stores the Match Finder's spans for q
C11_SetQuerySynchronous ==
  [][/\ lastOp' = "updateSearchQuery" =>
          /\ searchState'.query = lastPushed'[1]
          /\ searchState'.currentIndex = 0
          /\ debounceTimers' = lastPushed'
     /\ (lastOp = "updateSearchQuery" /\ lastOp' = "performSearch") =>
          /\ searchState'.query = lastPushed[1]
          /\ IsConcatenation(searchState'.results,
                FinderSpans(lastPushed[1], lastTargets', searchOptions))]_vars

\* C11 witness: a search has run while the timer of the query it matched is
\* pending and the debounced channel last delivered another query
C11_Witness ==
  /\ lastOp = "performSearch"
  /\ debounceTimers = <<searchState.query>>
  /\ distinctKey # <<>>
  /\ distinctKey[1] # searchState.query
  /\ distinctKey[1] # EmptyString
  /\ searchState.results # <<>>

\* C12: when an option changes right after a search whose spans would be
\* different under the new options, the state stops presenting those spans
C12_OptionsChangeInvalidatesResults ==
  [][(/\ lastOp = "performSearch"
      /\ lastOp' = "updateSearchOptions"
      /\ searchOptions' # searchOptions
      /\ ~IsConcatenation(searchState.results,
            FinderSpans(searchState.query, lastTargets, searchOptions')))
     => searchState'.results # searchState.results]_vars

\* the operations the Store notifies its subscribers of
NotifyingOps ==
  {"openSearch", "closeSearch", "updateSearchQuery", "performSearch", "setSearchMode"}

\* C13: open, close, setQuery, search and setViewScope, and next/previous
\* when totalMatches > 0, each emit the state they produced within the same
\* step, so the notifications follow the order of the operations
C13_MutationsNotifyInOrder ==
  [][/\ lastOp' \in NotifyingOps => emitted'
     /\ (lastOp' \in {"navigateNext", "navigatePrevious"}
           /\ searchState.totalMatches > 0) => emitted'
     /\ searchState' # searchState => emitted'
     /\ lastOp' = "openSearch" => searchState'.isActive
     /\ lastOp' = "closeSearch" => IsCanonicalInactive(searchState')
     /\ lastOp' = "updateSearchQuery" => searchState'.query = lastPushed'[1]
     /\ lastOp' = "performSearch" =>
          searchState'.totalMatches = Len(searchState'.results)]_vars

\* C13 witness: the view scope was changed to split while matches are held
C13_Witness ==
  /\ lastOp = "setSearchMode"
  /\ emitted
  /\ searchState.searchMode = "split"
  /\ searchState.results # <<>>


\* ------------------------------------------------------------------------
\* Properties of the Match Finder
\* ------------------------------------------------------------------------

\* the <<start, end>> pairs of a list of results
Spans(results) == [i \in 1..Len(results) |-> <<results[i].start, results[i].end>>]

\* has the call returned
Found == findResult # <<>>

\* what the call returned
FoundResults == findResult[1]

IsDefaultOptions(options) ==
  ~options.caseSensitive /\ ~options.wholeWord /\ ~options.useRegex

\* the spans lie in ascending order and no two of them overlap
NonOverlapping(spans) ==
  \A i, j \in 1..Len(spans) :
    i < j => (spans[i][1] < spans[j][1] /\ spans[i][2] <= spans[j][1])

\* C14: every span returned by one find call satisfies 0 <= start < end <=
\* length(text), and the spans are strictly ascending and do not overlap
C14_SpansWellFormed ==
  Found =>
    /\ \A i \in 1..Len(FoundResults) :
         /\ 0 <= FoundResults[i].start
         /\ FoundResults[i].start < FoundResults[i].end
         /\ FoundResults[i].end <= Len(findText)
    /\ NonOverlapping(Spans(FoundResults))

\* C15: with default options and a non-empty query, each span's text[start:end]
\* equals the query up to case, matchedText is text[start:end], and the
\* spans are ascending and do not overlap
C15_DefaultSpansEqualQuery ==
  (Found /\ IsDefaultOptions(findOptions) /\ findQuery # EmptyString) =>
    /\ \A i \in 1..Len(FoundResults) :
         LET start == FoundResults[i].start
             end == FoundResults[i].end
         IN /\ toLowerCase(substring(findText, start, end)) = toLowerCase(findQuery)
            /\ FoundResults[i].text = substring(findText, start, end)
    /\ NonOverlapping(Spans(FoundResults))

QueryAt == <<"a", "t">>

WholeWordOnly ==
  [caseSensitive |-> FALSE, wholeWord |-> TRUE, useRegex |-> FALSE]

\* is the call the one of the example, under the given options
CatCall(options) ==
  Found /\ findText = CatText /\ findQuery = QueryAt /\ findOptions = options

\* C16 as stated: "at" in "The cat sat on the mat" gives the 3 matches
\* (5,7), (10,12), (20,22) with default options and none with wholeWord
C16_CatExampleAsStated ==
  /\ CatCall(DefaultSearchOptions) =>
       Spans(FoundResults) = <<(<<5, 7>>), (<<10, 12>>), (<<20, 22>>)>>
  /\ CatCall(WholeWordOnly) => FoundResults = <<>>

\* C16: "at" in "The cat sat on the mat" gives the 3 matches (5,7), (9,11),
\* (20,22) with default options and none with wholeWord
C16_CatExample ==
  /\ CatCall(DefaultSearchOptions) =>
       /\ Spans(FoundResults) = <<(<<5, 7>>), (<<9, 11>>), (<<20, 22>>)>>
       /\ \A i \in 1..3 : FoundResults[i].text = QueryAt
  /\ CatCall(WholeWordOnly) => FoundResults = <<>>

\* C16 witness: the example's call with default options has returned
C16_Witness == CatCall(DefaultSearchOptions) /\ Len(FoundResults) = 3

\* the text the pattern is matched against
FoldedText == IF findOptions.caseSensitive THEN findText ELSE toLowerCase(findText)

FoldedQuery == IF findOptions.caseSensitive THEN findQuery ELSE toLowerCase(findQuery)

\* C17: with useRegex and a valid pattern, the spans are those of the query
\* as given, compiled with the flags g or gi, for both values of caseSensitive
C17_RegexCompiledAsGiven ==
  (Found /\ findOptions.useRegex /\ findQuery # EmptyString /\ findText # EmptyString
     /\ RegExp(findQuery) # Invalid) =>
    Spans(FoundResults) =
      Spans(execLoop(RegExp(findQuery), FoldedText, findText, 0,
                     ~findOptions.caseSensitive, <<>>))

\* does q occur in t at offset i
OccursAt(q, t, i) == i >= 0 /\ i + Len(q) <= Len(t) /\ SubSeq(t, i + 1, i + Len(q)) = q

\* spans of the left-to-right search for q in t without overlap: each span
\* is the first occurrence of q at or after the end of the one before
IsLiteralScan(spans, q, t) ==
  /\ \A k \in 1..Len(spans) :
       LET from == IF k = 1 THEN 0 ELSE spans[k - 1][2]
       IN /\ spans[k][2] = spans[k][1] + Len(q)
          /\ spans[k][1] >= from
          /\ OccursAt(q, t, spans[k][1])
          /\ \A i \in from..(spans[k][1] - 1) : ~OccursAt(q, t, i)
  /\ LET from == IF spans = <<>> THEN 0 ELSE spans[Len(spans)][2]
     IN \A i \in from..Len(t) : ~OccursAt(q, t, i)

\* C18: with useRegex and a query that is no valid pattern, find returns,
\* without raising, the spans of the literal search for the query
\* (case-folded unless caseSensitive)
C18_InvalidPatternFallsBack ==
  (Found /\ findOptions.useRegex /\ findQuery # EmptyString /\ findText # EmptyString
     /\ RegExp(findQuery) = Invalid) =>
    /\ FoundResults \in Seq([start : Nat, end : Nat, text : Seq(STRING), context : Seq(STRING)])
    /\ IsLiteralScan(Spans(FoundResults), FoldedQuery, FoldedText)

\* C18 witness: an invalid pattern was found several times as a literal
C18_Witness ==
  /\ Found
  /\ findOptions.useRegex
  /\ RegExp(findQuery) = Invalid
  /\ Len(findQuery) = 2
  /\ Len(FoundResults) >= 1
  /\ OccursAt(findQuery, findText, 1)

HasMetaChar(q) == \E i \in 1..Len(q) : q[i] \in MetaChars

\* C19: with useRegex and wholeWord off, a query that contains regex
\* metacharacters yields the spans of the literal search for it
C19_MetaCharsAreLiteral ==
  (Found /\ ~findOptions.useRegex /\ ~findOptions.wholeWord /\ HasMetaChar(findQuery)
     /\ findText # EmptyString) =>
    IsLiteralScan(Spans(FoundResults), FoldedQuery, FoldedText)

\* C19 witness: a query with a metacharacter was found as a literal where
\* the same query read as a pattern matches other spans
C19_Witness ==
  /\ Found
  /\ ~findOptions.useRegex
  /\ ~findOptions.wholeWord
  /\ HasMetaChar(findQuery)
  /\ FoundResults # <<>>
  /\ RegExp(findQuery) # Invalid
  /\ Spans(FoundResults) #
       Spans(execLoop(RegExp(findQuery), FoldedText, findText, 0,
                      ~findOptions.caseSensitive, <<>>))


\* ------------------------------------------------------------------------
\* Properties of the Buffer Highlighter
\* ------------------------------------------------------------------------

\* C20: whenever the overlay shows the matches of the buffer, its text (the
\* markup with the highlight markers stripped) is the buffer text
C20_OverlayReproducesText ==
  (backdrop # <<>> /\ searchMatches = EditorMatches(editorQuery, editorContent)) =>
    textContent(backdrop) = editorContent


\* ------------------------------------------------------------------------
\* Properties of the Scroll Sync Engine
\* ------------------------------------------------------------------------

\* C2: the scroll event a mirrored write raises on the other pane is
\* ignored, it never makes the Engine write back to the first pane
C2_EchoNeverMirroredBack == lastMirror # "mirror"


\* a cool-down window is open: a timer of scrollToSearchResult is pending
\* and the Engine was neither set up nor torn down since the call
InCooldown == \E k \in 1..Len(timeouts) : ~timeouts[k].detached

\* C22: while a cool-down window is open no scroll event is mirrored (a
\* mirrored write is the step in which the handler schedules its
\* animation-frame callback)
C22_NoMirrorDuringCooldown == [][InCooldown => frames' <= frames]_vars

\* C28: once every animation-frame callback and every cool-down timer has
\* run, the guard is clear
C28_GuardNeverStuck == (frames = 0 /\ timeouts = <<>>) => ~isSyncing


\* C23: after every step a pane carries at most one listener of the Engine,
\* isSyncActive() is true exactly when both listeners are installed, with
\* both references null no listener is left, and a scroll event handled
\* while the Engine is not active is not mirrored
C23_AttachDetach ==
  [][(\A p \in Panes : listeners'[p] <= 1)
     /\ (isSyncActive' <=> (\A p \in Panes : listeners'[p] = 1))
     /\ ((editorElement' = "null" /\ previewElement' = "null") =>
           (\A p \in Panes : listeners'[p] = 0))
     /\ (cleanup => (editorElement' = "null" /\ previewElement' = "null"))
     /\ (~isSyncActive => frames' <= frames)]_vars

\* the Engine was set up again after a mirrored write of an earlier
\* attachment whose scroll event is still to be delivered
C23_Witness == isSyncActive /\ \E p \in Panes : scrollPending[p] = "stale"


\* the step is a mirrored write for a scroll event of pane a
MirrorStep(a) ==
  /\ frames' = frames + 1
  /\ scrollPending[a] # "none"
  /\ scrollPending'[a] = "none"

\* contentExtent - viewportExtent of a pane
RangeOf(p) == scrollHeight[p] - clientHeight[p]

\* the percentage of pane a, offset / max(1, range), before the step and
\* the one of pane b after it, as fractions
PercentageBefore(a) == <<scrollTop[a], Max(1, RangeOf(a))>>
PercentageAfter(b) == <<scrollTop'[b], Max(1, RangeOf(b))>>

\* C24 as stated: after a scroll event on pane A at percentage p is
\* mirrored, the percentage of pane B equals p and the offset of B lies
\* in its range, whatever the extents of the panes
C24_ConvergesAsStated ==
  [][\A a \in Panes : MirrorStep(a) =>
       /\ scrollTop'[Other(a)] \in 0..Max(0, RangeOf(Other(a)))
       /\ PercentageAfter(Other(a))[1] * PercentageBefore(a)[2]
            = PercentageBefore(a)[1] * PercentageAfter(Other(a))[2]]_vars

\* C24: after a scroll event on pane A at percentage p is mirrored, the
\* offset of pane B lies in its range and is less than one pixel away
\* from p times the range of B; a pane B whose content extent equals its
\* viewport extent stays at offset 0
C24_ConvergesWithinPixel ==
  [][\A a \in Panes : MirrorStep(a) =>
       /\ scrollTop'[Other(a)] \in 0..Max(0, RangeOf(Other(a)))
       /\ scrollTop'[Other(a)] * PercentageBefore(a)[2]
            <= PercentageBefore(a)[1] * RangeOf(Other(a))
       /\ PercentageBefore(a)[1] * RangeOf(Other(a))
            < (scrollTop'[Other(a)] + 1) * PercentageBefore(a)[2]]_vars

\* the editor, scrolled to its end, was mirrored to a preview whose content
\* extent equals its viewport extent
C24_Witness ==
  /\ lastMirror = "external"
  /\ frames > 0
  /\ scrollPending["editor"] = "none"
  /\ scrollTop["editor"] = 2
  /\ RangeOf("preview") = 0


\* ------------------------------------------------------------------------
\* Properties of the Tree Highlighter and of the preview view
\* ------------------------------------------------------------------------

\* the text of a tree: the text of its parts in document order, marker
\* elements read through
RECURSIVE PartsText(_)
PartsText(parts) ==
  IF parts = <<>> THEN <<>> ELSE Head(parts).text \o PartsText(Tail(parts))

RECURSIVE TreeText(_)
TreeText(tree) ==
  IF tree = <<>> THEN <<>>
  ELSE PartsText(Head(tree).parts) \o TreeText(Tail(tree))

\* C21: the text of the tree the preview shows, markers read through, is
\* the text of the unmarked tree
C21_TreeRoundTrip == TreeText(previewDom) = TreeText(previewTree)


\* the positions, in document order, of the markers of the tree that are
\* tagged current
CurrentMarks(tree) ==
  {MarksBefore(tree, k, n) + 1 :
     <<k, n>> \in {<<k, n>> \in (1..Len(tree)) \X (1..4) :
                    /\ n <= Len(tree[k].parts)
                    /\ tree[k].parts[n].mark
                    /\ tree[k].parts[n].current}}

\* the markup a highlight pass with the query shows for the document
PassMarkup(query) ==
  innerHTML(highlightMatches(parseHtml(originalHtmlContent, 1), query))

\* C32: when the last pending animation-frame callback runs while the
\* preview shows the markup of its pass, and its cursorIndex is in
\* 1..totalMatches for the matches found in the text of the document under
\* some SearchOptions, exactly one marker of the tree is tagged current and
\* it is the cursorIndex-th marker in document order
C32_OneActiveMarkerAtCursor ==
  [][(previewFrameFire /\ previewFrames' = <<>>) =>
       LET pass == Head(previewFrames)
       IN (/\ htmlContent = PassMarkup(pass.query)
           /\ \E options \in AllOptions :
                 pass.currentIndex \in
                   1..Len(searchInContent(pass.query, TreeText(previewTree), options)))
          => CurrentMarks(previewDom') = {pass.currentIndex}]_vars

\* every marker of the tree holds one occurrence of the query, whatever
\* the case of its letters
MarkersHold(tree, query) ==
  \A k \in 1..Len(tree) : \A n \in 1..Len(tree[k].parts) :
    tree[k].parts[n].mark =>
      (query # EmptyString /\ toLowerCase(tree[k].parts[n].text) = toLowerCase(query))

\* C33: the unmarked markup of the document changes only in a re-render of
\* the document, and the tree shown after a highlight pass holds only
\* markers of the query of that pass, each holding one occurrence of it
C33_MarksNeverCompound ==
  [][/\ (previewTree' # previewTree =>
            \E tree \in PreviewTrees : renderMarkdown(tree))
     /\ \A query \in PreviewQueries, results \in PreviewResults,
           currentIndex \in PreviewIndexes :
          highlightSearchResults(query, results, currentIndex) =>
            MarkersHold(previewDom', query)]_vars

\* neither view shows a highlight: the overlay of the editor holds no marker
\* and the preview shows the unmarked markup
NoHighlights ==
  /\ \A i \in 1..Len(backdrop) : ~IsMarkerTag(backdrop[i])
  /\ htmlContent = originalHtmlContent
  /\ previewDom = previewTree

\* the latest handler of the shell ended with a call of op
AppRan(op) == appLastOp # <<>> /\ appLastOp[Len(appLastOp)] = op

\* C25: from a closeSearch of the shell until its next handler runs, animation
\* frames of earlier highlight passes included, neither view shows a highlight
C25_CloseRestoresBothViews == AppRan("closeSearch") => NoHighlights

\* the search was closed while the animation-frame callback of a highlight
\* pass of the preview was pending
C25_Witness == AppRan("closeSearch") /\ previewFrames # <<>>

\* ------------------------------------------------------------------------
\* Properties of the application shell
\* ------------------------------------------------------------------------

\* the step puts the content of another document into the buffer
DocumentSwitched == bufferOf' # bufferOf /\ bufferOf' # "null"

\* C26: when the content of another document arrives in the buffer, every
\* span the editor view holds ends inside the new text and its match
\* counters are zero
C26_SearchResetOnSwitch ==
  [][DocumentSwitched =>
       /\ \A k \in 1..Len(searchMatches') :
            searchMatches'[k].end <= Len(editorContent')
       /\ currentMatch' = 0 /\ totalMatches' = 0]_vars


\* C27: once the handler of Ctrl+F has run (it is the one that calls
\* toggleSearch) the search bar is open
C27_CtrlFOpensSearch ==
  (appLastOp # <<>> /\ appLastOp[1] = "toggleSearch") => appShowSearch


\* every read has completed
ReadsDone == \A path \in Paths : pendingReads[path] = 0

\* C29: once every read has completed, the buffer holds what was read (or
\* created) for the current path, and it was cleared when there is none
C29_BufferBelongsToCurrentFile == ReadsDone => bufferOf = currentFilePath

\* the step is a mirrored write of handleDirectScroll
AppMirrorStep == Len(pointerTimers') > Len(pointerTimers)

\* C30: handleDirectScroll writes a mirrored offset only in split mode and
\* never for the scroll event that one of its own mirrored writes raised
C30_NoFeedbackLoop ==
  [][AppMirrorStep => (viewMode = "split" /\ lastMirror' # "mirror")]_vars

\* ------------------------------------------------------------------------
\* Properties of the Buffer Highlighter fed by the store
\* ------------------------------------------------------------------------

\* the spans <<start, end>> of the buffer text that the markers tagged
\* current enclose in the overlay markup, read from position i on; offset
\* is the number of text characters before i, openAt the offset at which
\* the open current marker began, or -1
RECURSIVE ActiveSpansFrom(_, _, _, _)
ActiveSpansFrom(html, i, offset, openAt) ==
  IF i > Len(html) THEN {}
  ELSE IF html[i] = SpanCurrent THEN ActiveSpansFrom(html, i + 1, offset, offset)
  ELSE IF html[i] = SpanPlain THEN ActiveSpansFrom(html, i + 1, offset, -1)
  ELSE IF html[i] = SpanClose
    THEN (IF openAt >= 0 THEN {<<openAt, offset>>} ELSE {})
           \cup ActiveSpansFrom(html, i + 1, offset, -1)
  ELSE ActiveSpansFrom(html, i + 1, offset + 1, openAt)

ActiveSpans(html) == ActiveSpansFrom(html, 1, 0, -1)

\* the number of markers tagged current in the overlay markup
CountCurrent(html) == Cardinality({i \in 1..Len(html) : html[i] = SpanCurrent})

\* C31: when the Buffer Highlighter renders a state of the store whose
\* spans lie inside the buffer text and whose cursor is in
\* 1..totalMatches, exactly one marker of the overlay is
\* active, it encloses the span results[cursorIndex - 1], and the selection
\* is moved to that same span; with the cursor at 0 no marker is active
C31_ActiveMarkerIsCursorMatch ==
  [][editor_highlightSearchResults =>
       LET results == searchState.results
           currentIndex == searchState.currentIndex
       IN /\ (searchState.query # EmptyString
                 /\ currentIndex \in 1..searchState.totalMatches
                 /\ \A k \in 1..Len(results) :
                       results[k].end <= Len(editorContent)) =>
                (/\ CountCurrent(backdrop') = 1
                 /\ ActiveSpans(backdrop') =
                      {<<results[currentIndex].start, results[currentIndex].end>>}
                 /\ selection' =
                      <<results[currentIndex].start, results[currentIndex].end>>)
          /\ (currentIndex = 0 => CountCurrent(backdrop') = 0)]_vars

\* ------------------------------------------------------------------------
\* Properties of the editor view
\* ------------------------------------------------------------------------

\* a step of a search or highlighting operation of the editor view
EditorSearchStep ==
  \/ \E query \in EditorQueries : onSearchQueryChange(query)
  \/ editor_openSearch
  \/ openTimerFire
  \/ findNext
  \/ findPrevious
  \/ selectionTimerFire
  \/ editor_closeSearch

\* C34: no search or highlighting operation of the editor view (search,
\* next, previous, the overlay's render and clearing, close) changes the
\* text of the buffer
C34_SearchLeavesBufferAlone ==
  [][EditorSearchStep => editorContent' = editorContent]_vars

\* the second of two matches is current: a search and a next have written
\* the overlay and moved the selection over a buffer that holds text
C34_Witness ==
  /\ editorContent # EmptyString
  /\ currentMatch = 2
  /\ selection = <<searchMatches[2].start, searchMatches[2].end>>
  /\ CountCurrent(backdrop) = 1

\* ------------------------------------------------------------------------
\* Properties of the scan of the Match Finder
\* ------------------------------------------------------------------------

\* the text and the query the call scans, and its pattern
ScanText == IF findOptions.caseSensitive THEN findText ELSE toLowerCase(findText)
ScanQuery == IF findOptions.caseSensitive THEN findQuery ELSE toLowerCase(findQuery)
ScanRegex == RegExp(PatternSource(ScanQuery, findOptions))

\* the span of the first match at or after the offset pos, <<>> if none
ScanFrom(pos) ==
  IF ScanRegex = Invalid
  THEN LET found == indexOf(ScanText, ScanQuery, pos)
       IN IF found = -1 THEN <<>> ELSE <<found, found + Len(ScanQuery)>>
  ELSE LET m == exec(ScanRegex, ScanText, pos, ~findOptions.caseSensitive)
       IN IF m.index = -1 THEN <<>> ELSE <<m.index, m.lastIndex>>

\* where the scan resumes after a span: at its end, one character further
\* when the span is zero-width
ResumeAfter(span) == IF span[1] = span[2] THEN span[2] + 1 ELSE span[2]

\* the spans of the results the call returned
ReturnedSpans ==
  [k \in 1..Len(findResult[1]) |-> <<findResult[1][k].start, findResult[1][k].end>>]

\* C35: the call returns, after at most one match per scan position: the
\* first span is the first match of the text, each further span is the first
\* match at or after the end of the one before (one character after it when
\* that one is zero-width), and no match is left from there after the last
C35_ScanAdvances ==
  (findResult # <<>> /\ findQuery # EmptyString /\ findText # EmptyString) =>
    /\ Len(ReturnedSpans) <= Len(ScanText) + 1
    /\ IF Len(ReturnedSpans) = 0 THEN ScanFrom(0) = <<>>
       ELSE /\ ReturnedSpans[1] = ScanFrom(0)
            /\ \A k \in 1..(Len(ReturnedSpans) - 1) :
                 ReturnedSpans[k + 1] = ScanFrom(ResumeAfter(ReturnedSpans[k]))
            /\ ScanFrom(ResumeAfter(ReturnedSpans[Len(ReturnedSpans)])) = <<>>

\* the call returned a zero-width match right after a non-empty one, and a
\* further match after the zero-width one
C35_Witness ==
  /\ findResult # <<>>
  /\ \E k \in 2..(Len(ReturnedSpans) - 1) :
       /\ ReturnedSpans[k][1] = ReturnedSpans[k][2]
       /\ ReturnedSpans[k - 1][2] = ReturnedSpans[k][1]
       /\ ReturnedSpans[k - 1][1] < ReturnedSpans[k - 1][2]
       /\ ReturnedSpans[k + 1][1] = ReturnedSpans[k][2] + 1

\* ------------------------------------------------------------------------
\* Properties of the search bar of the application shell
\* ------------------------------------------------------------------------

\* C36: while the query of the shell is empty, the editor view holds no
\* matches and its overlay no highlight
C36_EmptyQueryHoldsNothing ==
  appSearchQuery = EmptyString =>
    /\ searchMatches = <<>>
    /\ \A i \in 1..Len(backdrop) : ~IsMarkerTag(backdrop[i])

\* ------------------------------------------------------------------------
\* Properties of the mirroring of a sequence of scrolls
\* ------------------------------------------------------------------------

\* nothing is left to run: no animation-frame callback and no scroll event
\* is pending
ScrollQuiet == frames = 0 /\ \A p \in Panes : scrollPending[p] = "none"

\* C37: with the Engine attached and the editor the only pane the user
\* scrolls, once the latest mirrored write was made for one of those scrolls
\* and every scroll event and animation-frame callback has run, the preview
\* is at the percentage of the editor's offset (less than one pixel below
\* it, offsets being whole pixels)
C37_LastScrollMirrored ==
  (isSyncActive /\ ScrollQuiet /\ lastMirror = "external") =>
    /\ scrollTop["preview"] * Max(1, RangeOf("editor"))
         <= scrollTop["editor"] * RangeOf("preview")
    /\ scrollTop["editor"] * RangeOf("preview")
         < (scrollTop["preview"] + 1) * Max(1, RangeOf("editor"))

\* ------------------------------------------------------------------------
\* Properties of the scroll listeners of the application shell
\* ------------------------------------------------------------------------

\* C38: whatever the sequence of view-mode toggles, each pane carries at
\* most one scroll listener of the shell, and the delivery of one scroll
\* event runs the mirroring handler at most once
C38_OneListenerPerPane ==
  [][/\ \A p \in Panes : appListeners'[p] <= 1
     /\ Len(pointerTimers') <= Len(pointerTimers) + 1]_vars

====
